---- MODULE Spec2Model ----
(***************************************************************************)
(* A model of gitlab-pages: the zip VFS archive cache and its open-once    *)
(* gate (internal/vfs/zip), archive path resolution, the GitLab source's   *)
(* lookup-path resolver and the shared connection limiter.                 *)
(***************************************************************************)
EXTENDS Integers, Sequences, FiniteSets, TLC

(***************************************************************************)
(* Bounds of the model.                                                    *)
(***************************************************************************)
\* requests served in one run; each is a goroutine that calls Root once
NumCallers == 2
\* lookup paths of a virtual domain
MaxLookupPaths == 3
\* listeners that share the Limiter, its capacity, connections accepted in
\* one run, Close calls made on one connection
NumListeners == 2
LimiterCapacity == 2
MaxConns == 3
MaxCloseCalls == 2
\* requests the application serves concurrently in one run
NumRequests == 1
\* the largest retries argument given to Poll
MaxRetries == 3
\* rules in a _redirects file
MaxRules == 2
\* TLS handshakes that ask for one domain's certificate concurrently
NumHandshakes == 3
\* archive instances created for one key, one after the eviction of the other
MaxInstances == 2
\* the rate limiter: perDomainBurstSize, and the ticks a run lasts beyond
\* the time that refills an empty bucket
BurstSize == 2
ExtraTicks == 1
\* the instants of the two compared runs of the rate limiter
PairMaxTicks == 2

(***************************************************************************)
(* Strings.  A string is a sequence of tokens; a token is "/", ".", ".."   *)
(* or a run of other characters, so that "public2" is <<"public", "2">>    *)
(* and has the prefix "public".                                            *)
(***************************************************************************)
\* strings.HasPrefix
HasPrefix(s, p) == Len(p) <= Len(s) /\ SubSeq(s, 1, Len(p)) = p

\* strings.TrimPrefix
TrimPrefix(s, p) == IF HasPrefix(s, p) THEN SubSeq(s, Len(p) + 1, Len(s)) ELSE s

\* strings.Contains
Contains(s, sub) ==
    \E i \in 0 .. (Len(s) - Len(sub)) : SubSeq(s, i + 1, i + Len(sub)) = sub

HasSlash(s) == \E i \in 1 .. Len(s) : s[i] = "/"
FirstSlash(s) == CHOOSE i \in 1 .. Len(s) : s[i] = "/" /\ \A j \in 1 .. (i - 1) : s[j] # "/"
LastSlash(s) == CHOOSE i \in 1 .. Len(s) : s[i] = "/" /\ \A j \in (i + 1) .. Len(s) : s[j] # "/"

\* strings.Split(s, "/")
RECURSIVE SplitSlash(_)
SplitSlash(s) ==
    IF ~HasSlash(s) THEN << s >>
    ELSE << SubSeq(s, 1, FirstSlash(s) - 1) >>
             \o SplitSlash(SubSeq(s, FirstSlash(s) + 1, Len(s)))

\* strings.SplitN(s, "/", 2)[0]
FirstElement(s) == IF HasSlash(s) THEN SubSeq(s, 1, FirstSlash(s) - 1) ELSE s

\* path.Split: the directory part, up to and with the last slash
SplitDir(s) == IF HasSlash(s) THEN SubSeq(s, 1, LastSlash(s)) ELSE << >>

\* path.Clean, the elements: empty and "." elements are dropped, ".." drops
\* the element before it, is dropped at the root, and is kept at the start
\* of a path that is not rooted
RECURSIVE CleanElements(_, _, _)
CleanElements(elems, out, rooted) ==
    IF elems = << >> THEN out
    ELSE LET e == Head(elems) rest == Tail(elems) IN
         IF e = << >> \/ e = << "." >> THEN CleanElements(rest, out, rooted)
         ELSE IF e = << ".." >>
              THEN IF out # << >> /\ out[Len(out)] # << ".." >>
                   THEN CleanElements(rest, SubSeq(out, 1, Len(out) - 1), rooted)
                   ELSE IF rooted THEN CleanElements(rest, out, rooted)
                        ELSE CleanElements(rest, Append(out, e), rooted)
              ELSE CleanElements(rest, Append(out, e), rooted)

RECURSIVE JoinSlash(_)
JoinSlash(elems) ==
    IF elems = << >> THEN << >>
    ELSE IF Len(elems) = 1 THEN elems[1]
         ELSE elems[1] \o << "/" >> \o JoinSlash(Tail(elems))

\* path.Clean and filepath.Clean
Clean(s) ==
    IF s = << >> THEN << "." >>
    ELSE LET rooted == s[1] = "/"
             body == JoinSlash(CleanElements(SplitSlash(s), << >>, rooted))
         IN  IF rooted THEN << "/" >> \o body
             ELSE IF body = << >> THEN << "." >> ELSE body

\* filepath.Join: the non-empty elements joined with a slash, then cleaned
JoinPath(a, b) ==
    IF a = << >> /\ b = << >> THEN << >>
    ELSE IF a = << >> THEN Clean(b)
         ELSE IF b = << >> THEN Clean(a)
              ELSE Clean(a \o << "/" >> \o b)


(***************************************************************************)
(* Zip VFS: the values.                                                    *)
(***************************************************************************)
\* goroutines calling zipVFS.Root
Callers == 1 .. NumCallers
NoCaller == 0

\* A URL is its part before the query string and its query string; the
\* text "%" is a URL that url.Parse rejects.
BadURL == [base |-> "%", query |-> ""]
GoodURLs ==
    { [base |-> "http://s/a.zip", query |-> "secret1"],
      [base |-> "http://s/a.zip", query |-> "secret2"] }
URLs == GoodURLs \cup {BadURL}
NoURL == [base |-> "", query |-> ""]

\* url.Parse: the parsed URL, or a parse error
UrlParseFails(u) == u.base = "%"

\* (*url.URL).String(): scheme, host and path, then "?" and the raw query.
\* The cache key that Root hands to findOrOpenArchive.
UrlString(u) == [base |-> u.base, query |-> u.query]

\* The canonical archive URL of the specification: the URL without its
\* query string.
CanonicalKey(u) == u.base

Keys == { UrlString(u) : u \in GoodURLs }
CanonicalKeys == { CanonicalKey(u) : u \in GoodURLs }
\* every call creates at most one archive
ArchiveIds == 1 .. NumCallers
NoArchive == 0

VARIABLES
    \* ---- zip VFS ----
    cacheMu,        \* zipVFS.cacheMu: the caller holding it, or NoCaller
    cacheArch,      \* zipVFS.cache: key -> the archive of its item, or NoArchive
    cacheExpired,   \* zipVFS.cache: key -> item.Expired()
    deletables,     \* items the cache replaced, waiting for the cache worker
    evicted,        \* archives whose OnDelete callback has run
    archiveCount,   \* zipVFS.archiveCount
    archives,       \* the zipArchive instances, by creation number
    cachedGauge,    \* metrics.ZipCachedArchives
    pc,             \* each caller's position in Root
    callURL,        \* the URL of the caller's Root in progress
    callArch,       \* the archive the caller's findOrOpenArchive picked (kept after the call)
    sawExpired,     \* the expired archive the caller's lookup found, if any (kept after the call)
    ret,            \* what the caller's last Root returned
    lastRootURL,    \* per canonical key, the URL of the last Root that returned an archive
    lastRootArch,   \* per canonical key, the archive that Root returned
    \* ---- names in an archive and on disk ----
    zipEntries,     \* a.archive.File: the names in the central directory
    aOpened,        \* readArchive has indexed the entries
    publicDirectoryName,   \* a.publicDirectoryName
    aFiles,         \* the keys of a.files
    aDirectories,   \* the keys of a.directories
    lookName,       \* the name of the last Open, Lstat or Readlink
    foundFile,      \* the entry findFile returned for it, or NoEntry
    foundDirectory, \* the entry findDirectory returned for it, or NoEntry
    fsDeployed,     \* the pages root holds a deployment
    fsFiles,        \* the regular files under the pages root
    tryName,        \* the subPath of the last tryFile
    tryServed,      \* the file that tryFile served, or NoEntry
    \* ---- the GitLab source's Resolve ----
    response,       \* what client.GetVirtualDomain returned for the last request
    requestURLPath, \* r.URL.Path of the last request
    resolved,       \* what Resolve returned for it
    \* ---- the shared connection limiter ----
    sem,            \* Limiter.sem: the number of slots taken
    listenerState,  \* per listener: open, closing (Listener.Close() done), closed (done closed)
    acceptPC,       \* per listener, its serving goroutine: acquire, accept, stopped
    acquired,       \* per listener: Accept's local acquired
    connState,      \* per connection: unused, open, closed
    releaseOnce,    \* per connection: releaseOnce has run
    releases,       \* per connection: how many times release ran
    closeCalls,     \* per connection: Close calls made, up to MaxCloseCalls
    \* ---- the application: domain map and request pipeline ----
    appRunning,     \* the configuration was read and the servers run
    RedirectHTTP,   \* appConfig.RedirectHTTP
    dm,             \* theApp.dm
    lockWriter,     \* theApp.lock is write-locked
    lockReaders,    \* the requests that hold theApp.lock for reading
    updatePC,       \* the watcher inside UpdateDomains: idle, locked, assigned
    updateMap,      \* UpdateDomains' argument
    reqPC,          \* per request: idle, rlocked, aux, done
    req,            \* per request: host, RequestURI and scheme
    reqMapAtLock,   \* per request: the map that was current when it took the read lock
    reqDomain,      \* per request: what a.domain(host) returned
    reqReady,       \* per request: what isReady returned, or unread
    reqArtifact,    \* per request: what Artifact.TryMakeRequest returned
    reply,          \* per request: the response, or none
    \* ---- the auth layer ----
    sessions,       \* per host: the values of the client's gitlab-pages session cookie
    authReq,        \* the last request the auth layer handled
    authCookie,     \* the session it came with, and whether the store accepted it
    authOut,        \* what the auth layer did with it
    flow,           \* a client that logs in by following every redirect
    poll,           \* the GitLab source's Poll: its loop and what it returned
    redirectRules,  \* the rules of the _redirects file, in file order, once parsed
    rewritten,      \* the last Rewrite call: the request path and what it returned
    rlNow,          \* the rate limiter's clock, in ticks
    domainsCache,   \* the host's rate.Limiter in the domains cache, or none
    rlAllowedAt,    \* per instant: the requests of the host allowed at it
    rlDecision,     \* the last DomainAllowed call: the instant and the answer
    archiveCall,    \* the last Open or Lstat on the opened archive, and what it returned
    keyArchive,     \* the cacheNamespace of the archive cached for the key, or 0
    namespaceCount, \* zipVFS.archiveCount as newArchive uses it
    dataOffsetCache,\* zipVFS.dataOffsetCache: the (namespace, name) keys it holds
    headerReads,    \* per (namespace, name): the calls of file.DataOffset
    offsetCall,     \* the last Open that asked for a data offset
    keyPair,        \* the domain's Config.Certificate and Config.Key: unset, valid, invalid
    certificate,    \* d.certificate: nil, or the parsed pair it points to
    parses,         \* calls of tls.X509KeyPair that returned a pair
    certPC,         \* per caller: its position in ensureCertificate
    certLocal,      \* per caller: the pair its own tls.X509KeyPair returned
    certRet,        \* per caller: the certificate or the error ensureCertificate returned
    gate,           \* the Auth pointer of the process (nil or configured) and the entry point last called
    pair,           \* two runs of the rate limiter that get the same requests for one host
    entryCache         \* one cache key of the zip VFS: its archives, their file counts and the gauge of cached entries

zipVars == << cacheMu, cacheArch, cacheExpired, deletables, evicted, archiveCount,
              archives, cachedGauge, pc, callURL, callArch, sawExpired, ret,
              lastRootURL, lastRootArch >>

pathVars == << zipEntries, aOpened, publicDirectoryName, aFiles, aDirectories,
               lookName, foundFile, foundDirectory, fsDeployed, fsFiles, tryName,
               tryServed >>

resolveVars == << response, requestURLPath, resolved >>

limiterVars == << sem, listenerState, acceptPC, acquired, connState, releaseOnce,
                  releases, closeCalls >>

appVars == << appRunning, RedirectHTTP, dm, lockWriter, lockReaders, updatePC,
              updateMap, reqPC, req, reqMapAtLock, reqDomain, reqReady,
              reqArtifact, reply >>

authVars == << sessions, authReq, authCookie, authOut >>

flowVars == << flow >>

pollVars == << poll >>

rewriteVars == << redirectRules, rewritten >>

rateVars == << rlNow, domainsCache, rlAllowedAt, rlDecision >>

archiveVars == << archiveCall >>

offsetsVars == << keyArchive, namespaceCount, dataOffsetCache, headerReads, offsetCall >>

certVars == << keyPair, certificate, parses, certPC, certLocal, certRet >>

gateVars == << gate >>

pairVars == << pair >>

entriesVars == << entryCache >>

nonZipVars == << pathVars, resolveVars, limiterVars, appVars, authVars, flowVars, pollVars, rewriteVars, rateVars, archiveVars, offsetsVars, certVars, gateVars, pairVars, entriesVars >>
nonPathVars == << zipVars, resolveVars, limiterVars, appVars, authVars, flowVars, pollVars, rewriteVars, rateVars, archiveVars, offsetsVars, certVars, gateVars, pairVars, entriesVars >>
nonResolveVars == << zipVars, pathVars, limiterVars, appVars, authVars, flowVars, pollVars, rewriteVars, rateVars, archiveVars, offsetsVars, certVars, gateVars, pairVars, entriesVars >>
nonLimiterVars == << zipVars, pathVars, resolveVars, appVars, authVars, flowVars, pollVars, rewriteVars, rateVars, archiveVars, offsetsVars, certVars, gateVars, pairVars, entriesVars >>
nonAppVars == << zipVars, pathVars, resolveVars, limiterVars, authVars, flowVars, pollVars, rewriteVars, rateVars, archiveVars, offsetsVars, certVars, gateVars, pairVars, entriesVars >>
nonAuthGateVars == << zipVars, pathVars, resolveVars, limiterVars, appVars, flowVars, pollVars, rewriteVars, rateVars, archiveVars, offsetsVars, certVars, pairVars, entriesVars >>
nonAuthVars == << zipVars, pathVars, resolveVars, limiterVars, appVars, flowVars, pollVars, rewriteVars, rateVars, archiveVars, offsetsVars, certVars, gateVars, pairVars, entriesVars >>
nonFlowVars == << zipVars, pathVars, resolveVars, limiterVars, appVars, pollVars, rewriteVars, rateVars, archiveVars, offsetsVars, certVars, gateVars, pairVars, entriesVars >>
nonPollVars == << zipVars, pathVars, resolveVars, limiterVars, appVars, authVars, flowVars, rewriteVars, rateVars, archiveVars, offsetsVars, certVars, gateVars, pairVars, entriesVars >>
nonRewriteVars == << zipVars, pathVars, resolveVars, limiterVars, appVars, authVars, flowVars, pollVars, rateVars, archiveVars, offsetsVars, certVars, gateVars, pairVars, entriesVars >>
nonRateVars == << zipVars, pathVars, resolveVars, limiterVars, appVars, authVars, flowVars, pollVars, rewriteVars, archiveVars, offsetsVars, certVars, gateVars, pairVars, entriesVars >>
nonArchiveVars == << zipVars, pathVars, resolveVars, limiterVars, appVars, authVars, flowVars, pollVars, rewriteVars, rateVars, offsetsVars, certVars, gateVars, pairVars, entriesVars >>
nonOffsetsVars == << zipVars, pathVars, resolveVars, limiterVars, appVars, authVars, flowVars, pollVars, rewriteVars, rateVars, archiveVars, certVars, gateVars, pairVars, entriesVars >>
nonCertVars == << zipVars, pathVars, resolveVars, limiterVars, appVars, authVars, flowVars, pollVars, rewriteVars, rateVars, archiveVars, offsetsVars, gateVars, pairVars, entriesVars >>
nonGateVars == << zipVars, pathVars, resolveVars, limiterVars, appVars, authVars, flowVars, pollVars, rewriteVars, rateVars, archiveVars, offsetsVars, certVars, pairVars, entriesVars >>
nonPairVars == << zipVars, pathVars, resolveVars, limiterVars, appVars, authVars, flowVars, pollVars, rewriteVars, rateVars, archiveVars, offsetsVars, certVars, gateVars, entriesVars >>
nonEntriesVars == << zipVars, pathVars, resolveVars, limiterVars, appVars, authVars, flowVars, pollVars, rewriteVars, rateVars, archiveVars, offsetsVars, certVars, gateVars, pairVars >>

vars == << zipVars, pathVars, resolveVars, limiterVars, appVars, authVars, flowVars, pollVars, rewriteVars, rateVars, archiveVars, offsetsVars, certVars, gateVars, pairVars, entriesVars >>

(***************************************************************************)
(* Zip VFS: the archive.                                                   *)
(***************************************************************************)
\* newArchive: done is open, nothing read, no resource
NewArchive ==
    [ onceDone |-> FALSE,     \* sync.Once has run
      reads    |-> 0,         \* how many times readArchive was started
      parse    |-> "none",    \* none, started, resource, done (done = close(a.done))
      readURL  |-> NoURL,     \* the url handed to readArchive
      resource |-> NoURL,     \* a.resource's URL, NoURL while a.resource is nil
      err      |-> FALSE,     \* a.err != nil
      resErr   |-> FALSE ]    \* a.resource.Err() != nil

\* openStatus
OpenStatus(a) ==
    IF archives[a].parse = "done"
    THEN IF archives[a].err THEN "archiveOpenError"
         ELSE IF archives[a].resource # NoURL /\ archives[a].resErr
              THEN "archiveCorrupted"
              ELSE "archiveOpened"
    ELSE "archiveOpening"

\* openStatus that reports no error
OpenStatusAlwaysNil(a) == "nil"

\* the error openStatus returns with the status
OpenStatusErr(a) ==
    CASE OpenStatus(a) = "archiveOpenError" -> "openError"
      [] OpenStatus(a) = "archiveCorrupted" -> "corrupted"
      [] OTHER -> "nil"

\* a.once.Do runs its function only the first time
OnceAlwaysRuns(a) == TRUE
OnceShouldRun(a) == ~archives[a].onceDone

\* what openArchive returns when ctx.Done() is chosen: ctx.Err()
CtxDoneReturnsArchiveErr(a) == IF archives[a].err THEN "openError" ELSE "nil"
CtxDoneResult(a) == "ctxErr"

\* what openArchive returns when a.done is chosen: a.err
DoneResult(a) == IF archives[a].err THEN "openError" ELSE "nil"

(***************************************************************************)
(* Zip VFS: the cache.                                                     *)
(***************************************************************************)
\* findOrOpenArchive's test: item == nil || item.Expired()
IsMissIgnoringExpiry(k) == cacheArch[k] = NoArchive
IsMiss(k) == cacheArch[k] = NoArchive \/ cacheExpired[k]

\* cache.Set(path, archive, ttl): the item of the key is replaced, and an
\* item it replaces is handed to the cache's worker for deletion
CacheSetDeletables(k) ==
    IF cacheArch[k] # NoArchive THEN deletables \cup {cacheArch[k]} ELSE deletables

CachedKeys == { k \in Keys : cacheArch[k] # NoArchive }

InitZip ==
    /\ cacheMu = NoCaller
    /\ cacheArch = [k \in Keys |-> NoArchive]
    /\ cacheExpired = [k \in Keys |-> FALSE]
    /\ deletables = {}
    /\ evicted = {}
    /\ archiveCount = 0
    /\ archives = [a \in ArchiveIds |-> NewArchive]
    /\ cachedGauge = 0
    /\ pc = [c \in Callers |-> "idle"]
    /\ callURL = [c \in Callers |-> NoURL]
    /\ callArch = [c \in Callers |-> NoArchive]
    /\ sawExpired = [c \in Callers |-> NoArchive]
    /\ ret = [c \in Callers |-> "none"]
    /\ lastRootURL = [b \in CanonicalKeys |-> NoURL]
    /\ lastRootArch = [b \in CanonicalKeys |-> NoArchive]

\* Root: url.Parse fails, the error is returned
RootInvalidURL(c, u) ==
    /\ pc[c] = "idle"
    /\ UrlParseFails(u)
    /\ ret' = [ret EXCEPT ![c] = "invalidURL"]
    /\ pc' = [pc EXCEPT ![c] = "returned"]
    /\ UNCHANGED << cacheMu, cacheArch, cacheExpired, deletables, evicted,
                    archiveCount, archives, cachedGauge, callURL, callArch,
                    sawExpired, lastRootURL, lastRootArch >>
    /\ UNCHANGED nonZipVars

\* Root and findOrOpenArchive up to the call of openArchive: the lock is
\* taken, the item looked up, and on a miss a new archive is created and set
FindOrOpenArchive(c, u) ==
    /\ pc[c] = "idle"
    /\ ~UrlParseFails(u)
    /\ cacheMu = NoCaller
    /\ LET k == UrlString(u) IN
       /\ cacheMu' = c
       /\ callURL' = [callURL EXCEPT ![c] = u]
       /\ ret' = [ret EXCEPT ![c] = "pending"]
       /\ pc' = [pc EXCEPT ![c] = "locked"]
       /\ sawExpired' = [sawExpired EXCEPT ![c] =
              IF cacheArch[k] # NoArchive /\ cacheExpired[k]
              THEN cacheArch[k] ELSE NoArchive]
       /\ IF IsMiss(k)
          THEN /\ archiveCount' = archiveCount + 1
               /\ archives' = [archives EXCEPT ![archiveCount + 1] = NewArchive]
               /\ deletables' = CacheSetDeletables(k)
               /\ cacheArch' = [cacheArch EXCEPT ![k] = archiveCount + 1]
               /\ cacheExpired' = [cacheExpired EXCEPT ![k] = FALSE]
               /\ cachedGauge' = cachedGauge + 1
               /\ callArch' = [callArch EXCEPT ![c] = archiveCount + 1]
          ELSE /\ callArch' = [callArch EXCEPT ![c] = cacheArch[k]]
               /\ UNCHANGED << archiveCount, archives, deletables, cacheArch,
                               cacheExpired, cachedGauge >>
    /\ UNCHANGED << evicted, lastRootURL, lastRootArch >>
    /\ UNCHANGED nonZipVars

\* openArchive, lines 79-81: the resource's URL is updated when there is one
OpenArchiveSetURL(c) ==
    /\ pc[c] = "locked"
    /\ LET a == callArch[c] IN
       archives' = [archives EXCEPT
                       ![a].resource = IF @ # NoURL THEN callURL[c] ELSE @]
    /\ pc' = [pc EXCEPT ![c] = "opening"]
    /\ UNCHANGED << cacheMu, cacheArch, cacheExpired, deletables, evicted,
                    archiveCount, cachedGauge, callURL, callArch, sawExpired,
                    ret, lastRootURL, lastRootArch >>
    /\ UNCHANGED nonZipVars

\* what a finished call leaves: findOrOpenArchive returns and its deferred
\* Unlock runs
Return(c, result) ==
    /\ pc' = [pc EXCEPT ![c] = "returned"]
    /\ ret' = [ret EXCEPT ![c] = result]
    /\ cacheMu' = NoCaller
    /\ callURL' = [callURL EXCEPT ![c] = NoURL]
    /\ UNCHANGED << callArch, sawExpired >>
    /\ lastRootURL' = IF result = "nil"
                      THEN [lastRootURL EXCEPT ![CanonicalKey(callURL[c])] = callURL[c]]
                      ELSE lastRootURL
    /\ lastRootArch' = IF result = "nil"
                       THEN [lastRootArch EXCEPT ![CanonicalKey(callURL[c])] = callArch[c]]
                       ELSE lastRootArch

\* openArchive, lines 84-86: the open was done already, its status is returned
OpenArchiveAlreadyDone(c) ==
    /\ pc[c] = "opening"
    /\ OpenStatus(callArch[c]) # "archiveOpening"
    /\ Return(c, OpenStatusErr(callArch[c]))
    /\ UNCHANGED << cacheArch, cacheExpired, deletables, evicted, archiveCount,
                    archives, cachedGauge >>
    /\ UNCHANGED nonZipVars

\* openArchive, lines 88-95: a.once.Do starts readArchive in its own goroutine
OpenArchiveOnce(c) ==
    /\ pc[c] = "opening"
    /\ OpenStatus(callArch[c]) = "archiveOpening"
    /\ LET a == callArch[c] IN
       archives' = IF OnceShouldRun(a)
                   THEN [archives EXCEPT ![a].onceDone = TRUE,
                                         ![a].reads = @ + 1,
                                         ![a].parse = "started",
                                         ![a].readURL = callURL[c]]
                   ELSE archives
    /\ pc' = [pc EXCEPT ![c] = "waiting"]
    /\ UNCHANGED << cacheMu, cacheArch, cacheExpired, deletables, evicted,
                    archiveCount, cachedGauge, callURL, callArch, sawExpired,
                    ret, lastRootURL, lastRootArch >>
    /\ UNCHANGED nonZipVars

\* openArchive, lines 98-100: a.done is closed, a.err is returned
OpenArchiveDone(c) ==
    /\ pc[c] = "waiting"
    /\ archives[callArch[c]].parse = "done"
    /\ Return(c, DoneResult(callArch[c]))
    /\ UNCHANGED << cacheArch, cacheExpired, deletables, evicted, archiveCount,
                    archives, cachedGauge >>
    /\ UNCHANGED nonZipVars

\* openArchive, lines 101-111: the caller's context is cancelled or timed out
OpenArchiveCtxDone(c) ==
    /\ pc[c] = "waiting"
    /\ Return(c, CtxDoneResult(callArch[c]))
    /\ UNCHANGED << cacheArch, cacheExpired, deletables, evicted, archiveCount,
                    archives, cachedGauge >>
    /\ UNCHANGED nonZipVars

\* readArchive, lines 117-127: httprange.NewResource succeeds or fails
ReadArchiveNewResource(a, ok) ==
    /\ archives[a].parse = "started"
    /\ archives' = IF ok
                   THEN [archives EXCEPT ![a].resource = archives[a].readURL,
                                         ![a].parse = "resource"]
                   ELSE [archives EXCEPT ![a].err = TRUE, ![a].parse = "done"]
    /\ UNCHANGED << cacheMu, cacheArch, cacheExpired, deletables, evicted,
                    archiveCount, cachedGauge, pc, callURL, callArch, sawExpired,
                    ret, lastRootURL, lastRootArch >>
    /\ UNCHANGED nonZipVars

\* readArchive, lines 129-164: zip.NewReader succeeds or fails, done is closed
ReadArchiveParse(a, ok) ==
    /\ archives[a].parse = "resource"
    /\ archives' = [archives EXCEPT ![a].err = ~ok, ![a].parse = "done"]
    /\ UNCHANGED << cacheMu, cacheArch, cacheExpired, deletables, evicted,
                    archiveCount, cachedGauge, pc, callURL, callArch, sawExpired,
                    ret, lastRootURL, lastRootArch >>
    /\ UNCHANGED nonZipVars

\* a ranged read of an opened archive fails: resource.Err() is set
ResourceError(a) ==
    /\ OpenStatus(a) = "archiveOpened"
    /\ archives[a].resource # NoURL
    /\ archives' = [archives EXCEPT ![a].resErr = TRUE]
    /\ UNCHANGED << cacheMu, cacheArch, cacheExpired, deletables, evicted,
                    archiveCount, cachedGauge, pc, callURL, callArch, sawExpired,
                    ret, lastRootURL, lastRootArch >>
    /\ UNCHANGED nonZipVars

\* defaultCacheExpirationInterval passes for an item
Expire(k) ==
    /\ cacheArch[k] # NoArchive
    /\ ~cacheExpired[k]
    /\ cacheExpired' = [cacheExpired EXCEPT ![k] = TRUE]
    /\ UNCHANGED << cacheMu, cacheArch, deletables, evicted, archiveCount,
                    archives, cachedGauge, pc, callURL, callArch, sawExpired,
                    ret, lastRootURL, lastRootArch >>
    /\ UNCHANGED nonZipVars

\* the cache's worker deletes a replaced item: the OnDelete callback of New
OnDelete(a) ==
    /\ a \in deletables
    /\ deletables' = deletables \ {a}
    /\ evicted' = evicted \cup {a}
    /\ cachedGauge' = cachedGauge - 1
    /\ UNCHANGED << cacheMu, cacheArch, cacheExpired, archiveCount, archives,
                    pc, callURL, callArch, sawExpired, ret, lastRootURL, lastRootArch >>
    /\ UNCHANGED nonZipVars

(***************************************************************************)
(* Names in an archive: readArchive's index, findFile and findDirectory,   *)
(* and the filesystem's tryFile.                                           *)
(***************************************************************************)
NoEntry == << >>
Slash == << "/" >>

\* the names a central directory may hold; a name that ends in a slash is a
\* directory record
ZipEntryUniverse ==
    { << "public", "/", "index.html" >>,
      << "public", "/", "d", "/", "f.html" >>,
      << "public", "/", "d", "/" >>,
      << "public", "2", "/", "secret.html" >>,
      << "build", "/", "b.html" >> }

\* the names requested from Open, Lstat and Readlink
RequestNames ==
    { << "index.html" >>,
      << "d", "/", "f.html" >>,
      << "d" >>,
      << "d", "/", "..", "/", "index.html" >>,
      << "/", "index.html" >>,
      << ".." >>,
      << "..", "/", "public", "2", "/", "secret.html" >>,
      << "..", "/", "public", "2" >>,
      << "..", "/", "build", "/", "b.html" >> }

\* the subPaths requested from tryFile
TrySubPaths ==
    { << "index.html" >>,
      << "d" >>,
      << "..", "/", "public", "2", "/", "secret.html" >>,
      << "..", "/", "config.json" >> }

\* guessPublicDirectoryName's candidates, in its order
commonPrefixes == << << "public" >>, << "build" >>, << "dist" >>, << "out" >>, << "_site" >> >>

\* getAllRootDirectories
getAllRootDirectories(entries) == { FirstElement(e) : e \in entries }

\* guessPublicDirectoryName
guessPublicDirectoryName(entries) ==
    LET roots == getAllRootDirectories(entries)
        hits == { i \in 1 .. Len(commonPrefixes) : commonPrefixes[i] \in roots }
    IN  IF Cardinality(roots) = 1 THEN CHOOSE r \in roots : TRUE
        ELSE IF hits # {}
             THEN commonPrefixes[CHOOSE i \in hits : \A j \in hits : i <= j]
             ELSE << >>

\* file.Mode().IsDir(): a zip name that ends in a slash
IsDirName(e) == e # << >> /\ e[Len(e)] = "/"

\* readArchive's test for the entries it indexes
KeepsEntry(e, pub) == HasPrefix(e, pub)

\* readArchive, lines 143-155: a.files
IndexedFiles(entries, pub) ==
    { e \in entries : KeepsEntry(e, pub) /\ ~IsDirName(e) }

\* readArchive, lines 143-155, and addPathDirectory: a.directories
IndexedDirectories(entries, pub) ==
    { e \in entries : KeepsEntry(e, pub) /\ IsDirName(e) }
      \cup { SplitDir(e) : e \in { x \in entries : KeepsEntry(x, pub) /\ SplitDir(x) # << >> } }

\* findFile
findFile(name) ==
    LET n == Clean(publicDirectoryName \o Slash \o name)
    IN  IF n \in aFiles THEN n ELSE NoEntry

\* findDirectory
findDirectory(name) ==
    LET n == Clean(publicDirectoryName \o Slash \o name) \o Slash
    IN  IF n \in aDirectories THEN n ELSE NoEntry

\* the deployment on disk, under *pagesRoot: group g, project p
PagesRoot == << "root" >>
Group == << "g" >>
ProjectName == << "p" >>
FsUniverse ==
    { << "root", "/", "g", "/", "p", "/", "public", "/", "index.html" >>,
      << "root", "/", "g", "/", "p", "/", "public", "/", "d", "/", "index.html" >>,
      << "root", "/", "g", "/", "p", "/", "public", "2", "/", "secret.html" >>,
      << "root", "/", "g", "/", "p", "/", "config.json" >> }

\* tryFile, line 24
publicPath == JoinPath(JoinPath(JoinPath(PagesRoot, Group), ProjectName), << "public" >>)

\* os.Lstat of a path: a regular file, a directory, or nothing
IsFileOnDisk(path) == path \in fsFiles
IsDirOnDisk(path) == \E f \in fsFiles : HasPrefix(f, path \o Slash)

\* tryFile, lines 25-29: the test that keeps fullPath under publicPath
UnderPublicPath(fullPath) == HasPrefix(fullPath, publicPath)

\* tryFile: the file it serves, or NoEntry when it returns false
tryFile(subPath) ==
    LET fullPath == Clean(JoinPath(publicPath, subPath))
        index == JoinPath(fullPath, << "index.html" >>)
    IN  IF ~UnderPublicPath(fullPath) THEN NoEntry
        ELSE IF IsFileOnDisk(fullPath) THEN fullPath
        ELSE IF IsDirOnDisk(fullPath) /\ IsFileOnDisk(index) THEN index
        ELSE NoEntry

InitPaths ==
    /\ zipEntries = {}
    /\ aOpened = FALSE
    /\ publicDirectoryName = << >>
    /\ aFiles = {}
    /\ aDirectories = {}
    /\ lookName = NoEntry
    /\ foundFile = NoEntry
    /\ foundDirectory = NoEntry
    /\ fsDeployed = FALSE
    /\ fsFiles = {}
    /\ tryName = NoEntry
    /\ tryServed = NoEntry

\* readArchive, lines 140-155, of an archive with these entries
ReadArchiveEntries(entries) ==
    /\ ~aOpened
    /\ zipEntries' = entries
    /\ aOpened' = TRUE
    /\ publicDirectoryName' = guessPublicDirectoryName(entries)
    /\ aFiles' = IndexedFiles(entries, guessPublicDirectoryName(entries))
    /\ aDirectories' = IndexedDirectories(entries, guessPublicDirectoryName(entries))
    /\ UNCHANGED << lookName, foundFile, foundDirectory, fsDeployed, fsFiles,
                    tryName, tryServed >>
    /\ UNCHANGED nonPathVars

\* Open, Lstat or Readlink of a name: findFile, then findDirectory
LookupName(name) ==
    /\ aOpened
    /\ lookName' = name
    /\ LET file == findFile(name) IN
       /\ foundFile' = file
       /\ foundDirectory' = IF file = NoEntry THEN findDirectory(name) ELSE NoEntry
    /\ UNCHANGED << zipEntries, aOpened, publicDirectoryName, aFiles, aDirectories,
                    fsDeployed, fsFiles, tryName, tryServed >>
    /\ UNCHANGED nonPathVars

\* a deployment is written under the pages root
DeployPages(files) ==
    /\ ~fsDeployed
    /\ fsDeployed' = TRUE
    /\ fsFiles' = files
    /\ UNCHANGED << zipEntries, aOpened, publicDirectoryName, aFiles, aDirectories,
                    lookName, foundFile, foundDirectory, tryName, tryServed >>
    /\ UNCHANGED nonPathVars

\* domain.tryFile of a subPath
TryFile(subPath) ==
    /\ fsDeployed
    /\ tryName' = subPath
    /\ tryServed' = tryFile(subPath)
    /\ UNCHANGED << zipEntries, aOpened, publicDirectoryName, aFiles, aDirectories,
                    lookName, foundFile, foundDirectory, fsDeployed, fsFiles >>
    /\ UNCHANGED nonPathVars

NextPaths ==
    \/ \E entries \in SUBSET ZipEntryUniverse : ReadArchiveEntries(entries)
    \/ \E name \in RequestNames : LookupName(name)
    \/ \E files \in SUBSET FsUniverse : DeployPages(files)
    \/ \E subPath \in TrySubPaths : TryFile(subPath)


(***************************************************************************)
(* The GitLab source: Resolve.                                             *)
(***************************************************************************)
\* the prefixes the API may return for a domain
Prefixes ==
    { << "/" >>,
      << "/", "p", "/" >>,
      << "/", "p", "/", "q", "/" >>,
      << "/", "q", "/" >> }

\* the request paths
RequestPaths ==
    { << "/" >>,
      << "/", "index.html" >>,
      << "/", "p", "/", "index.html" >>,
      << "/", "p", "/", "q", "/", "index.html" >>,
      << "/", "q", "/", "index.html" >>,
      << "/", "x", "/", "q", "/", "index.html" >> }

\* a lookup path of the API's response: its prefix and its source path
LookupOf(prefix) == [Prefix |-> prefix, SourcePath |-> << "/", "group" >> \o prefix]

\* the lists of lookup paths, in the API's order, with distinct prefixes
LookupLists ==
    { l \in UNION { [1 .. n -> Prefixes] : n \in 0 .. MaxLookupPaths } :
          \A i, j \in DOMAIN l : i # j => l[i] # l[j] }

NoLookup == [status |-> "none", Prefix |-> << >>, Path |-> << >>,
             IsNamespaceProject |-> FALSE, requestPath |-> << >>]

\* Resolve's test of a lookup path against the request path
Matches(path, prefix) == Contains(path, prefix)

\* Resolve, lines 56-73: the first lookup path, in the response's order, that
\* matches
ResolveLookup(lookups, path) ==
    LET hits == { i \in DOMAIN lookups : Matches(path, lookups[i]) } IN
    IF hits = {}
    THEN [NoLookup EXCEPT !.status = "noMatch"]
    ELSE LET i == CHOOSE h \in hits : \A j \in hits : h <= j IN
         [ status |-> "ok",
           Prefix |-> lookups[i],
           Path |-> TrimPrefix(LookupOf(lookups[i]).SourcePath, << "/" >>),
           IsNamespaceProject |-> (lookups[i] = << "/" >> /\ Len(lookups) > 1),
           requestPath |-> TrimPrefix(path, lookups[i]) ]

InitResolve ==
    /\ response = [kind |-> "none", LookupPaths |-> << >>]
    /\ requestURLPath = << >>
    /\ resolved = NoLookup

\* Resolve of a request for which the client returns an error
ResolveClientError(path) ==
    /\ response' = [kind |-> "error", LookupPaths |-> << >>]
    /\ requestURLPath' = path
    /\ resolved' = [NoLookup EXCEPT !.status = "clientError"]
    /\ UNCHANGED nonResolveVars

\* Resolve of a request for which the client returns no domain and no error:
\* response.LookupPaths dereferences nil
ResolveNilResponse(path) ==
    /\ response' = [kind |-> "nil", LookupPaths |-> << >>]
    /\ requestURLPath' = path
    /\ resolved' = [NoLookup EXCEPT !.status = "panic"]
    /\ UNCHANGED nonResolveVars

\* Resolve of a request for which the client returns a domain
ResolveDomain(lookups, path) ==
    /\ response' = [kind |-> "domain", LookupPaths |-> lookups]
    /\ requestURLPath' = path
    /\ resolved' = ResolveLookup(lookups, path)
    /\ UNCHANGED nonResolveVars

NextResolve ==
    \/ \E path \in RequestPaths : ResolveClientError(path)
    \/ \E path \in RequestPaths : ResolveNilResponse(path)
    \/ \E lookups \in LookupLists, path \in RequestPaths : ResolveDomain(lookups, path)

(***************************************************************************)
(* The shared connection limiter.                                          *)
(***************************************************************************)
Listeners == 1 .. NumListeners
Conns == 1 .. MaxConns

OpenConns == { k \in Conns : connState[k] = "open" }
UnusedConns == { k \in Conns : connState[k] = "unused" }

\* acquire's second case: the send on limiter.sem can proceed
SemSendReadyUnbounded == TRUE
SemSendReady == sem < LimiterCapacity

\* releaseOnce.Do runs release only the first time
ReleaseOnceAlwaysRuns(k) == TRUE
ReleaseOnceShouldRun(k) == ~releaseOnce[k]

\* Accept, lines 63-66: on an error of the underlying Accept the slot is
\* released if it was acquired
KeepsSlotOnAcceptError(l) == FALSE
ReleasesOnAcceptError(l) == acquired[l]

InitLimiter ==
    /\ sem = 0
    /\ listenerState = [l \in Listeners |-> "open"]
    /\ acceptPC = [l \in Listeners |-> "acquire"]
    /\ acquired = [l \in Listeners |-> FALSE]
    /\ connState = [k \in Conns |-> "unused"]
    /\ releaseOnce = [k \in Conns |-> FALSE]
    /\ releases = [k \in Conns |-> 0]
    /\ closeCalls = [k \in Conns |-> 0]

\* acquire: a slot is taken
AcquireSlot(l) ==
    /\ acceptPC[l] = "acquire"
    /\ SemSendReady
    /\ sem' = sem + 1
    /\ acquired' = [acquired EXCEPT ![l] = TRUE]
    /\ acceptPC' = [acceptPC EXCEPT ![l] = "accept"]
    /\ UNCHANGED << listenerState, connState, releaseOnce, releases, closeCalls >>
    /\ UNCHANGED nonLimiterVars

\* acquire: the listener's done is closed, no slot is taken
AcquireClosed(l) ==
    /\ acceptPC[l] = "acquire"
    /\ listenerState[l] = "closed"
    /\ acquired' = [acquired EXCEPT ![l] = FALSE]
    /\ acceptPC' = [acceptPC EXCEPT ![l] = "accept"]
    /\ UNCHANGED << sem, listenerState, connState, releaseOnce, releases, closeCalls >>
    /\ UNCHANGED nonLimiterVars

\* Accept, lines 62 and 70-77: the underlying Accept returns a connection
AcceptConn(l, k) ==
    /\ acceptPC[l] = "accept"
    /\ listenerState[l] = "open"
    /\ k \in UnusedConns /\ \A j \in UnusedConns : k <= j
    /\ connState' = [connState EXCEPT ![k] = "open"]
    /\ acceptPC' = [acceptPC EXCEPT ![l] = "acquire"]
    /\ acquired' = [acquired EXCEPT ![l] = FALSE]
    /\ UNCHANGED << sem, listenerState, releaseOnce, releases, closeCalls >>
    /\ UNCHANGED nonLimiterVars

\* Accept, lines 62-68: the underlying Accept of a closed listener fails, a
\* slot that was acquired is released
AcceptError(l) ==
    /\ acceptPC[l] = "accept"
    /\ listenerState[l] # "open"
    /\ ReleasesOnAcceptError(l) => sem > 0
    /\ sem' = IF ReleasesOnAcceptError(l) THEN sem - 1 ELSE sem
    /\ acquired' = [acquired EXCEPT ![l] = FALSE]
    /\ acceptPC' = [acceptPC EXCEPT ![l] = "stopped"]
    /\ UNCHANGED << listenerState, connState, releaseOnce, releases, closeCalls >>
    /\ UNCHANGED nonLimiterVars

\* sharedLimitListener.Close, line 81: the underlying listener is closed
CloseListener(l) ==
    /\ listenerState[l] = "open"
    /\ listenerState' = [listenerState EXCEPT ![l] = "closing"]
    /\ UNCHANGED << sem, acceptPC, acquired, connState, releaseOnce, releases, closeCalls >>
    /\ UNCHANGED nonLimiterVars

\* sharedLimitListener.Close, line 82: closeOnce closes done
CloseListenerDone(l) ==
    /\ listenerState[l] = "closing"
    /\ listenerState' = [listenerState EXCEPT ![l] = "closed"]
    /\ UNCHANGED << sem, acceptPC, acquired, connState, releaseOnce, releases, closeCalls >>
    /\ UNCHANGED nonLimiterVars

\* sharedLimitListenerConn.Close: the connection is closed and releaseOnce
\* runs release, which receives from limiter.sem
CloseConn(k) ==
    /\ connState[k] \in {"open", "closed"}
    /\ closeCalls[k] < MaxCloseCalls
    /\ closeCalls' = [closeCalls EXCEPT ![k] = @ + 1]
    /\ connState' = [connState EXCEPT ![k] = "closed"]
    /\ IF ReleaseOnceShouldRun(k)
       THEN /\ sem > 0
            /\ sem' = sem - 1
            /\ releaseOnce' = [releaseOnce EXCEPT ![k] = TRUE]
            /\ releases' = [releases EXCEPT ![k] = @ + 1]
       ELSE UNCHANGED << sem, releaseOnce, releases >>
    /\ UNCHANGED << listenerState, acceptPC, acquired >>
    /\ UNCHANGED nonLimiterVars

NextLimiter ==
    \/ \E l \in Listeners : AcquireSlot(l)
    \/ \E l \in Listeners : AcquireClosed(l)
    \/ \E l \in Listeners, k \in Conns : AcceptConn(l, k)
    \/ \E l \in Listeners : AcceptError(l)
    \/ \E l \in Listeners : CloseListener(l)
    \/ \E l \in Listeners : CloseListenerDone(l)
    \/ \E k \in Conns : CloseConn(k)


(***************************************************************************)
(* The application: the domain map and the request pipeline.               *)
(***************************************************************************)
Requests == 1 .. NumRequests

\* hosts of requests, and ToLower of them
RequestHosts == { "a.io", "A.io", "x.io" }
ToLower(h) == IF h = "A.io" THEN "a.io" ELSE h

\* appConfig.StatusPath
StatusPath == << "/status" >>

\* requests: r.URL.Path and r.URL.RawQuery
RequestTargets ==
    { [path |-> << "/status" >>, query |-> << >>],
      [path |-> << "/status" >>, query |-> << "probe" >>],
      [path |-> << "/index.html" >>, query |-> << >>] }

\* r.RequestURI: the path and, if there is one, the query
RequestURI(t) == IF t.query = << >> THEN t.path ELSE t.path \o << "?" >> \o t.query

NoRequest == [host |-> "", target |-> [path |-> << >>, query |-> << >>], https |-> FALSE]

\* a domain of the map: absent, or its HTTPS-only setting
NoDomain == "nil"
DomainEntries == { "plain", "httpsOnly" }

\* domain.Map values: nil, or the known hosts with their domains
NilMap == [isNil |-> TRUE, entries |-> [h \in {} |-> NoDomain]]
DomainMaps ==
    { [isNil |-> FALSE, entries |-> [h \in {} |-> NoDomain]],
      [isNil |-> FALSE, entries |-> [h \in {"a.io"} |-> "plain"]],
      [isNil |-> FALSE, entries |-> [h \in {"a.io"} |-> "httpsOnly"]] }

\* a.dm[host]
MapLookup(m, host) ==
    IF ~m.isNil /\ host \in DOMAIN m.entries THEN m.entries[host] ELSE NoDomain

\* isReady: a.dm != nil
isReady == ~dm.isNil

\* Lock of theApp.lock waits for the readers and the writer to leave
WriteLockIgnoresReaders == ~lockWriter
WriteLockFree == ~lockWriter /\ lockReaders = {}

\* tryAuxiliaryHandlers, lines 91-100: the request is answered before the
\* artifact proxy is tried
AnsweredBeforeArtifact(rq, redirect) ==
    \/ RequestURI(rq.target) = StatusPath
    \/ ~rq.https /\ redirect

\* tryAuxiliaryHandlers: the request calls isReady
CallsIsReady(rq, artifact, redirect) ==
    \/ RequestURI(rq.target) = StatusPath
    \/ ~AnsweredBeforeArtifact(rq, redirect) /\ ~artifact

\* tryAuxiliaryHandlers with what it read: the response, or "serve" when it
\* returns false
TryAuxiliaryHandlersDomainFirst(rq, domain, ready, artifact, redirect) ==
    IF RequestURI(rq.target) = StatusPath
    THEN IF ready THEN "200 success" ELSE "503 not yet ready"
    ELSE IF ready /\ domain = NoDomain THEN "404"
    ELSE IF ~rq.https /\ redirect THEN "307"
    ELSE IF artifact THEN "artifact"
    ELSE IF ~ready THEN "503"
    ELSE IF ~rq.https /\ domain = "httpsOnly" THEN "301"
    ELSE "serve"
TryAuxiliaryHandlers(rq, domain, ready, artifact, redirect) ==
    IF RequestURI(rq.target) = StatusPath
    THEN IF ready THEN "200 success" ELSE "503 not yet ready"
    ELSE IF ~rq.https /\ redirect THEN "307"
    ELSE IF artifact THEN "artifact"
    ELSE IF ~ready THEN "503"
    ELSE IF domain = NoDomain THEN "404"
    ELSE IF ~rq.https /\ domain = "httpsOnly" THEN "301"
    ELSE "serve"

InitApp ==
    /\ appRunning = FALSE
    /\ RedirectHTTP = FALSE
    /\ dm = NilMap
    /\ lockWriter = FALSE
    /\ lockReaders = {}
    /\ updatePC = "idle"
    /\ updateMap = NilMap
    /\ reqPC = [r \in Requests |-> "idle"]
    /\ req = [r \in Requests |-> NoRequest]
    /\ reqMapAtLock = [r \in Requests |-> NilMap]
    /\ reqDomain = [r \in Requests |-> NoDomain]
    /\ reqReady = [r \in Requests |-> "unread"]
    /\ reqArtifact = [r \in Requests |-> FALSE]
    /\ reply = [r \in Requests |-> "none"]

\* runApp: the configuration is fixed and the listeners start
RunApp(redirect) ==
    /\ ~appRunning
    /\ appRunning' = TRUE
    /\ RedirectHTTP' = redirect
    /\ UNCHANGED << dm, lockWriter, lockReaders, updatePC, updateMap, reqPC, req,
                    reqMapAtLock, reqDomain, reqReady, reqArtifact, reply >>
    /\ UNCHANGED nonAppVars

\* UpdateDomains, line 162: a.lock.Lock()
UpdateDomainsLock(newMap) ==
    /\ appRunning
    /\ updatePC = "idle"
    /\ WriteLockFree
    /\ lockWriter' = TRUE
    /\ updatePC' = "locked"
    /\ updateMap' = newMap
    /\ UNCHANGED << appRunning, RedirectHTTP, dm, lockReaders, reqPC, req,
                    reqMapAtLock, reqDomain, reqReady, reqArtifact, reply >>
    /\ UNCHANGED nonAppVars

\* UpdateDomains, line 164: a.dm = dm
UpdateDomainsAssign ==
    /\ updatePC = "locked"
    /\ dm' = updateMap
    /\ updatePC' = "assigned"
    /\ UNCHANGED << appRunning, RedirectHTTP, lockWriter, lockReaders, updateMap, reqPC,
                    req, reqMapAtLock, reqDomain, reqReady, reqArtifact, reply >>
    /\ UNCHANGED nonAppVars

\* UpdateDomains, line 163: the deferred a.lock.Unlock()
UpdateDomainsUnlock ==
    /\ updatePC = "assigned"
    /\ lockWriter' = FALSE
    /\ updatePC' = "idle"
    /\ updateMap' = NilMap
    /\ UNCHANGED << appRunning, RedirectHTTP, dm, lockReaders, reqPC, req,
                    reqMapAtLock, reqDomain, reqReady, reqArtifact, reply >>
    /\ UNCHANGED nonAppVars

\* serveContent, line 133, and domain, lines 43-44: a request arrives and
\* takes the read lock
DomainRLock(r, host, target, https) ==
    /\ appRunning
    /\ reqPC[r] = "idle"
    /\ ~lockWriter
    /\ lockReaders' = lockReaders \cup {r}
    /\ req' = [req EXCEPT ![r] = [host |-> host, target |-> target, https |-> https]]
    /\ reqMapAtLock' = [reqMapAtLock EXCEPT ![r] = dm]
    /\ reqPC' = [reqPC EXCEPT ![r] = "rlocked"]
    /\ UNCHANGED << appRunning, RedirectHTTP, dm, lockWriter, updatePC, updateMap,
                    reqDomain, reqReady, reqArtifact, reply >>
    /\ UNCHANGED nonAppVars

\* domain, lines 45-47: the lookup, and the deferred RUnlock
DomainLookup(r) ==
    /\ reqPC[r] = "rlocked"
    /\ reqDomain' = [reqDomain EXCEPT ![r] = MapLookup(dm, ToLower(req[r].host))]
    /\ lockReaders' = lockReaders \ {r}
    /\ reqPC' = [reqPC EXCEPT ![r] = "aux"]
    /\ UNCHANGED << appRunning, RedirectHTTP, dm, lockWriter, updatePC, updateMap, req,
                    reqMapAtLock, reqReady, reqArtifact, reply >>
    /\ UNCHANGED nonAppVars

\* tryAuxiliaryHandlers, with its one read of a.dm in isReady, which takes
\* no lock, and the serving of the file when it returns false
ServeContent(r, artifact) ==
    /\ reqPC[r] = "aux"
    /\ artifact => ~AnsweredBeforeArtifact(req[r], RedirectHTTP)
    /\ reqReady' = [reqReady EXCEPT ![r] =
                       IF ~CallsIsReady(req[r], artifact, RedirectHTTP) THEN "unread"
                       ELSE IF isReady THEN "ready" ELSE "notReady"]
    /\ reqArtifact' = [reqArtifact EXCEPT ![r] = artifact]
    /\ reply' = [reply EXCEPT ![r] =
                    TryAuxiliaryHandlers(req[r], reqDomain[r], isReady, artifact, RedirectHTTP)]
    /\ reqMapAtLock' = [reqMapAtLock EXCEPT ![r] = NilMap]
    /\ reqPC' = [reqPC EXCEPT ![r] = "done"]
    /\ UNCHANGED << appRunning, RedirectHTTP, dm, lockWriter, lockReaders, updatePC,
                    updateMap, req, reqDomain >>
    /\ UNCHANGED nonAppVars

NextApp ==
    \/ \E redirect \in BOOLEAN : RunApp(redirect)
    \/ \E newMap \in DomainMaps : UpdateDomainsLock(newMap)
    \/ UpdateDomainsAssign
    \/ UpdateDomainsUnlock
    \/ \E r \in Requests, host \in RequestHosts, target \in RequestTargets, https \in BOOLEAN :
           DomainRLock(r, host, target, https)
    \/ \E r \in Requests : DomainLookup(r)
    \/ \E r \in Requests, artifact \in BOOLEAN : ServeContent(r, artifact)

(***************************************************************************)
(* The auth layer: values.                                                 *)
(***************************************************************************)
\* strings.HasSuffix
HasSuffix(s, suffix) ==
    /\ Len(suffix) <= Len(s)
    /\ SubSeq(s, Len(s) - Len(suffix) + 1, Len(s)) = suffix

\* hosts: the pages domain, a custom domain, a subdomain of the pages
\* domain, a host whose name ends with the characters of the pages domain,
\* and a host that no source knows
PagesHost == << "pages", ".", "io" >>
HostA == << "a", ".", "com" >>
SubdomainHost == << "g", ".", "pages", ".", "io" >>
LookalikeHost == << "evil", "pages", ".", "io" >>
UnlistedHost == << "u", ".", "org" >>
NoHost == << >>

\* Auth.pagesDomain
pagesDomain == PagesHost

\* the hosts that requests reach
AuthHosts == { PagesHost, HostA }

\* domains.GetDomain(name) finds a domain
SourceHasDomain(name) == name = HostA

\* a URL with scheme and host, as getRequestDomain builds it and as the
\* domain parameter carries it; NoDomainURL is the empty string, BadDomainURL
\* a string that url.Parse rejects
DomainURL(https, host) == [ok |-> TRUE, https |-> https, host |-> host]
NoDomainURL == [ok |-> TRUE, https |-> FALSE, host |-> NoHost]
BadDomainURL == [ok |-> FALSE, https |-> FALSE, host |-> NoHost]
DomainParams ==
    { NoDomainURL, BadDomainURL }
        \cup { DomainURL(TRUE, h) : h \in { HostA, SubdomainHost, LookalikeHost, UnlistedHost } }

\* state values, "" when absent
NoState == ""
StateValues == { "s1", "s2" }

\* the code parameter: none, a code of the identity provider, or a code
\* that EncryptAndSignCode wrapped for a domain
NoCode == [kind |-> "none", aud |-> NoDomainURL, code |-> ""]
RawCode == [kind |-> "raw", aud |-> NoDomainURL, code |-> "c1"]
SignedCodes ==
    [ kind : {"signed"}, aud : DomainParams \ { NoDomainURL, BadDomainURL },
      code : {"", "c1", "jwt"} ]

\* the query of a request; "" is an absent parameter
NoQuery == [domain |-> NoDomainURL, state |-> NoState, code |-> NoCode,
            token |-> "", error |-> ""]
\* /auth?domain=..&state=.., as checkTokenExists redirects to it
ProxyQueries ==
    { [NoQuery EXCEPT !.domain = d, !.state = "s1"] : d \in DomainParams \ {NoDomainURL} }
\* /auth?code=..&state=..&token=.., as the identity provider or the pages
\* domain redirects to it, and /auth?error=..
CallbackQueries(codes) ==
    { [NoQuery EXCEPT !.code = c, !.state = st] : c \in codes, st \in {NoState, "s1"} }
        \cup { [NoQuery EXCEPT !.code = RawCode, !.state = "s1", !.token = "secret"],
               [NoQuery EXCEPT !.error = "access_denied"] }

callbackPath == "/auth"
ContentPath == "/private"

\* requests
AuthRequests(codes) ==
    [ host : AuthHosts, https : {TRUE}, path : {callbackPath},
      query : ProxyQueries \cup CallbackQueries(codes) ]
ContentRequests ==
    [ host : {HostA}, https : {TRUE}, path : {ContentPath}, query : {NoQuery} ]
NoAuthRequest == [host |-> NoHost, https |-> FALSE, path |-> "", query |-> NoQuery]

\* getRequestAddress, getRequestDomain
getRequestAddress(r) == [https |-> r.https, host |-> r.host, path |-> r.path, query |-> r.query]
getRequestDomain(r) == DomainURL(r.https, r.host)
NoAddress == [https |-> FALSE, host |-> NoHost, path |-> "", query |-> NoQuery]

\* session.Values
NoToken == ""
EmptySession ==
    [access_token |-> NoToken, state |-> NoState, uri |-> NoAddress,
     proxy_auth_domain |-> NoDomainURL]

\* what the environment does during a request: the cookie authenticates and
\* decrypts, session.Save fails, the random state, whether /oauth/token
\* answers 200 with a token, the answer of the access check (200, 401 with
\* error invalid_token, another 401, 403, a transport error, or no request
\* could be built), the age of the signed code, EncryptAndSignCode fails
AuthEnvs ==
    [ cookieOK : BOOLEAN, saveFails : BOOLEAN, newState : StateValues,
      exchange : {"200", "notOk"},
      api : {"200", "invalid_token", "401", "403", "error", "noRequest"},
      codeExpired : BOOLEAN, encryptFails : BOOLEAN ]
\* during TryAuthenticate: no state is drawn and no access check made, and
\* at most one call fails, or the cookie is rejected and Save fails
TryEnvs ==
    { e \in AuthEnvs :
        /\ e.newState = "s1" /\ e.api = "200"
        /\ \/ e.exchange = "200" /\ ~e.codeExpired /\ ~e.encryptFails
           \/ /\ e.cookieOK /\ ~e.saveFails
              /\ \/ e.exchange # "200" /\ ~e.codeExpired /\ ~e.encryptFails
                 \/ e.exchange = "200" /\ e.codeExpired /\ ~e.encryptFails
                 \/ e.exchange = "200" /\ ~e.codeExpired /\ e.encryptFails }
\* during CheckAuthentication: no code is decrypted, exchanged or signed
\* and the access check is reached with a cookie that the store accepts
CheckEnvs ==
    { e \in AuthEnvs :
        /\ e.exchange = "200" /\ ~e.codeExpired /\ ~e.encryptFails
        /\ e.cookieOK \/ e.api = "200"
        /\ ~e.saveFails \/ e.api \in {"200", "invalid_token"} }

(***************************************************************************)
(* The auth layer: the handlers.                                           *)
(***************************************************************************)
\* Auth.redirectURI and the authorize endpoint of Auth.gitLabServer
GitLabHost == << "gitlab", ".", "com" >>
redirectURI == [https |-> TRUE, host |-> PagesHost, path |-> callbackPath, query |-> NoQuery]
AuthorizeURL(state) ==
    [https |-> TRUE, host |-> GitLabHost, path |-> "/oauth/authorize",
     query |-> [NoQuery EXCEPT !.state = state]]

\* getProxyAddress: redirectURI?domain=<request domain>&state=<state>
getProxyAddress(r, state) ==
    [redirectURI EXCEPT !.query = [NoQuery EXCEPT !.domain = getRequestDomain(r), !.state = state]]

\* EncryptAndSignCode(domain, code): a token bound to the domain that
\* carries the code unreadably; the code it wraps may itself be a token
EncryptAndSignCode(domain, code) ==
    [kind |-> "signed", aud |-> domain,
     code |-> IF code.kind = "signed" THEN "jwt" ELSE code.code]

\* DecryptCode(jwt, domain) succeeds for a token that was bound to this
\* domain and has not expired
DecryptCodeOk(jwt, domain, expired) ==
    /\ jwt.kind = "signed"
    /\ jwt.aud = domain
    /\ ~expired

\* a verification of the code for the pages domain instead of the request's
DecryptDomainOfPages(r) == DomainURL(TRUE, PagesHost)

\* the domain that checkAuthenticationResponse verifies the code for
DecryptDomain(r) == getRequestDomain(r)

\* Auth.domainAllowed(name, domains)
NameEndsLikePagesDomain(name) == HasSuffix(<< "." >> \o name, pagesDomain)
domainAllowed(name) ==
    \/ name = pagesDomain
    \/ NameEndsLikePagesDomain(name)
    \/ SourceHasDomain(name)

\* validateState
validateState(r, session) ==
    /\ r.query.state # NoState
    /\ session.state # NoState
    /\ session.state = r.query.state

\* verifyCodeAndStateGiven
verifyCodeAndStateGiven(r) == r.query.code # NoCode /\ r.query.state # NoState

\* shouldProxyAuthToGitlab, shouldProxyCallbackToCustomDomain
shouldProxyAuthToGitlab(r) == r.query.domain # NoDomainURL /\ r.query.state # NoState
shouldProxyCallbackToCustomDomain(session) == session.proxy_auth_domain # NoDomainURL

\* authSessionMaxAge
authSessionMaxAge == 600

\* the options of the session cookie, as getSessionFromStore sets them
NoOptions == [Path |-> "", HttpOnly |-> FALSE, Secure |-> FALSE, MaxAge |-> 0]
SessionOptionsAlwaysSecure(r) ==
    [Path |-> "/", HttpOnly |-> TRUE, Secure |-> TRUE, MaxAge |-> authSessionMaxAge]
SessionOptions(r) ==
    [Path |-> "/", HttpOnly |-> TRUE, Secure |-> r.https, MaxAge |-> authSessionMaxAge]

\* what a handler did: whether it took the request, the status and the
\* Location it wrote, the session the client holds afterwards, whether a
\* session cookie was written and with which options, whether /oauth/token
\* and the access check were called, whether the domain's
\* ServeNotFoundAuthFailed hook ran
NoStatus == "none"
Outcome(handled, status, location, session) ==
    [handled |-> handled, status |-> status, location |-> location, session |-> session,
     saved |-> FALSE, cookie |-> NoOptions,
     exchanged |-> FALSE, api |-> "none", notFoundHook |-> FALSE]
NotHandled(session) == Outcome(FALSE, NoStatus, NoAddress, session)
NoOutcome == NotHandled(EmptySession)

\* session.Save, then the answer: a failed Save leaves the client's cookie
\* as it was and answers 500
SaveThen(cookie, session, env, status, location) ==
    IF env.saveFails
    THEN Outcome(TRUE, "500", NoAddress, cookie)
    ELSE [Outcome(TRUE, status, location, session) EXCEPT !.saved = TRUE]

\* the Set-Cookie header that a successful Save writes
WithSetCookie(r, out) ==
    [out EXCEPT !.cookie = IF out.saved THEN SessionOptions(r) ELSE NoOptions]

\* a checkSession that saves the values of the rejected cookie again
checkSessionTrustingCookie(r, cookie, env) ==
    SaveThen(cookie, cookie, env, "302", getRequestAddress(r))

\* checkSession with a cookie that the store rejects
checkSessionRejected(r, cookie, env) ==
    SaveThen(cookie, EmptySession, env, "302", getRequestAddress(r))

\* handleProxyingAuth, first branch
ProxyAuthToGitlab(r, session, env) ==
    IF ~r.query.domain.ok
    THEN Outcome(TRUE, "500", NoAddress, session)
    ELSE IF ~domainAllowed(r.query.domain.host)
    THEN Outcome(TRUE, "401", NoAddress, session)
    ELSE SaveThen(session, [session EXCEPT !.proxy_auth_domain = r.query.domain], env,
                  "302", AuthorizeURL(r.query.state))

\* the query of the relay redirect
RelayQueryKeepingToken(r, signedCode) == [r.query EXCEPT !.code = signedCode]
RelayQuery(r, signedCode) == [r.query EXCEPT !.token = "", !.code = signedCode]

\* handleProxyingAuth, second branch
ProxyCallbackToCustomDomain(r, session, env) ==
    LET proxyDomain == session.proxy_auth_domain
        cleared == [session EXCEPT !.proxy_auth_domain = NoDomainURL]
    IN  IF env.saveFails
        THEN Outcome(TRUE, "500", NoAddress, session)
        ELSE IF env.encryptFails
        THEN [Outcome(TRUE, "503", NoAddress, cleared) EXCEPT !.saved = TRUE]
        ELSE [Outcome(TRUE, "302",
                      [https |-> proxyDomain.https, host |-> proxyDomain.host, path |-> r.path,
                       query |-> RelayQuery(r, EncryptAndSignCode(proxyDomain, r.query.code))],
                      cleared) EXCEPT !.saved = TRUE]

\* checkAuthenticationResponse
checkAuthenticationResponse(r, session, env) ==
    IF ~validateState(r, session)
    THEN Outcome(TRUE, "401", NoAddress, session)
    ELSE IF session.uri = NoAddress
    THEN Outcome(TRUE, "500", NoAddress, session)
    ELSE IF ~DecryptCodeOk(r.query.code, DecryptDomain(r), env.codeExpired)
    THEN Outcome(TRUE, "500", NoAddress, session)
    ELSE IF env.exchange # "200"
    THEN [Outcome(TRUE, "503", NoAddress, session) EXCEPT !.exchanged = TRUE]
    ELSE [SaveThen(session, [session EXCEPT !.access_token = "abc"], env, "302", session.uri)
            EXCEPT !.exchanged = TRUE]

\* TryAuthenticate, for an Auth that is configured
TryAuthenticateOutcome(r, cookie, env) ==
    IF ~env.cookieOK THEN checkSessionRejected(r, cookie, env)
    ELSE IF r.path # callbackPath THEN NotHandled(cookie)
    ELSE IF shouldProxyAuthToGitlab(r) THEN ProxyAuthToGitlab(r, cookie, env)
    ELSE IF shouldProxyCallbackToCustomDomain(cookie)
    THEN ProxyCallbackToCustomDomain(r, cookie, env)
    ELSE IF r.query.error # "" THEN Outcome(TRUE, "401", NoAddress, cookie)
    ELSE IF verifyCodeAndStateGiven(r) THEN checkAuthenticationResponse(r, cookie, env)
    ELSE NotHandled(cookie)

\* a checkTokenExists that leaves proxy_auth_domain in the session
StartLoginKeepingProxy(r, session, env) ==
    SaveThen(session,
             [session EXCEPT !.state = env.newState, !.uri = getRequestAddress(r)],
             env, "302", getProxyAddress(r, env.newState))

\* checkTokenExists when the session holds no access_token
StartLogin(r, session, env) ==
    SaveThen(session,
             [session EXCEPT !.state = env.newState, !.uri = getRequestAddress(r),
                             !.proxy_auth_domain = NoDomainURL],
             env, "302", getProxyAddress(r, env.newState))

\* a destroySession that leaves the access_token in the session
destroySessionKeepingToken(r, session, env) ==
    SaveThen(session, session, env, "302", getRequestAddress(r))

\* destroySession
destroySession(r, session, env) ==
    SaveThen(session, [session EXCEPT !.access_token = NoToken], env,
             "302", getRequestAddress(r))

\* the access check lets the request through
AccessGrantedAlways(api) == api # "invalid_token"
AccessGranted(api) == api = "200"

\* checkAuthentication, for a request with a project
checkAuthentication(r, cookie, env) ==
    IF ~env.cookieOK THEN checkSessionRejected(r, cookie, env)
    ELSE IF cookie.access_token = NoToken THEN StartLogin(r, cookie, env)
    ELSE IF env.api = "noRequest" THEN Outcome(TRUE, "500", NoAddress, cookie)
    ELSE IF env.api = "invalid_token"
    THEN [destroySession(r, cookie, env) EXCEPT !.api = env.api]
    ELSE IF ~AccessGranted(env.api)
    THEN [Outcome(TRUE, "404", NoAddress, cookie) EXCEPT !.api = env.api, !.notFoundHook = TRUE]
    ELSE [NotHandled(cookie) EXCEPT !.api = env.api]

InitAuth ==
    /\ sessions = [h \in AuthHosts |-> EmptySession]
    /\ authReq = NoAuthRequest
    /\ authCookie = [session |-> EmptySession, ok |-> TRUE]
    /\ authOut = NoOutcome

\* the codes a client can send: none, one of the identity provider, or the
\* signed code that the last answer redirected it with
PresentableCodes == { NoCode, RawCode, authOut.location.query.code }

\* a request reaches TryAuthenticate
TryAuthenticate(r, env) ==
    /\ authReq' = r
    /\ authCookie' = [session |-> sessions[r.host], ok |-> env.cookieOK]
    /\ authOut' = WithSetCookie(r, TryAuthenticateOutcome(r, sessions[r.host], env))
    /\ sessions' = [sessions EXCEPT ![r.host] = authOut'.session]
    /\ UNCHANGED nonAuthVars

\* a request for an access-controlled path reaches CheckAuthentication
CheckAuthentication(r, env) ==
    /\ authReq' = r
    /\ authCookie' = [session |-> sessions[r.host], ok |-> env.cookieOK]
    /\ authOut' = WithSetCookie(r, checkAuthentication(r, sessions[r.host], env))
    /\ sessions' = [sessions EXCEPT ![r.host] = authOut'.session]
    /\ UNCHANGED nonAuthVars

NextAuth ==
    \/ \E r \in AuthRequests(PresentableCodes), env \in TryEnvs : TryAuthenticate(r, env)
    \/ \E r \in ContentRequests, env \in CheckEnvs : CheckAuthentication(r, env)

(***************************************************************************)
(* A client that requests an access-controlled address without a cookie    *)
(* and follows every redirect.                                             *)
(***************************************************************************)
NoFlow == [phase |-> "idle", uri |-> NoAddress, next |-> NoAddress, fault |-> "none",
           redirects |-> 0]

\* the request for an address
RequestFor(address) ==
    [host |-> address.host, https |-> address.https, path |-> address.path,
     query |-> address.query]

\* the failures that the step for a request can meet: Save in every step,
\* EncryptAndSignCode in the relay, the expiry of the signed code and
\* /oauth/token in the tenant's callback
FlowEnvs(r) ==
    LET session == sessions[r.host]
    IN  { e \in AuthEnvs :
            /\ e.cookieOK /\ e.api = "200"
            /\ r.path = callbackPath => e.newState = "s1"
            /\ IF r.path # callbackPath \/ shouldProxyAuthToGitlab(r)
               THEN e.exchange = "200" /\ ~e.codeExpired /\ ~e.encryptFails
               ELSE IF shouldProxyCallbackToCustomDomain(session)
               THEN e.exchange = "200" /\ ~e.codeExpired /\ (e.saveFails => ~e.encryptFails)
               ELSE /\ ~e.encryptFails
                    /\ e.saveFails => e.exchange = "200" /\ ~e.codeExpired
                    /\ e.codeExpired => e.exchange = "200" }

\* the failure that a step met
FaultOf(env) ==
    IF env.saveFails THEN "save"
    ELSE IF env.encryptFails THEN "sign"
    ELSE IF env.codeExpired THEN "expired"
    ELSE IF env.exchange # "200" THEN "exchange"
    ELSE "none"

\* the client after an answer: it follows a 302, has arrived when the 302
\* points at the address it asked for, and stops at any other answer
FlowAfter(f, out, env) ==
    IF out.status = "302"
    THEN [f EXCEPT !.phase = IF out.location = f.uri THEN "done" ELSE "running",
                   !.next = out.location,
                   !.redirects = f.redirects + 1]
    ELSE [f EXCEPT !.phase = "stopped", !.next = NoAddress,
                   !.fault = IF f.fault = "none" THEN FaultOf(env) ELSE f.fault]

InitFlow == flow = NoFlow

\* the first request: an access-controlled address, no cookie
FlowStart(host, https, env) ==
    LET r == [host |-> host, https |-> https, path |-> ContentPath, query |-> NoQuery]
        out == WithSetCookie(r, checkAuthentication(r, sessions[host], env))
    IN  /\ flow.phase = "idle"
        /\ sessions[host] = EmptySession
        /\ authReq' = r
        /\ authCookie' = [session |-> sessions[host], ok |-> env.cookieOK]
        /\ authOut' = out
        /\ sessions' = [sessions EXCEPT ![host] = out.session]
        /\ flow' = FlowAfter([flow EXCEPT !.uri = getRequestAddress(r)], out, env)
        /\ UNCHANGED nonFlowVars

\* the client follows a redirect to one of the hosts
FlowFollow(env) ==
    LET r == RequestFor(flow.next)
        out == WithSetCookie(r, TryAuthenticateOutcome(r, sessions[r.host], env))
    IN  /\ flow.phase = "running"
        /\ r.host \in AuthHosts
        /\ authReq' = r
        /\ authCookie' = [session |-> sessions[r.host], ok |-> env.cookieOK]
        /\ authOut' = out
        /\ sessions' = [sessions EXCEPT ![r.host] = out.session]
        /\ flow' = IF out.handled THEN FlowAfter(flow, out, env)
                   ELSE [flow EXCEPT !.phase = "stopped", !.next = NoAddress]
        /\ UNCHANGED nonFlowVars

\* the client follows the redirect to the identity provider, which sends it
\* back to redirectURI with a code and the state, or with an error
FlowIdentityProvider(grants) ==
    /\ flow.phase = "running"
    /\ flow.next.host = GitLabHost
    /\ flow' = [flow EXCEPT
           !.next = [redirectURI EXCEPT !.query =
                        IF grants
                        THEN [NoQuery EXCEPT !.code = RawCode, !.state = flow.next.query.state]
                        ELSE [NoQuery EXCEPT !.error = "access_denied",
                                             !.state = flow.next.query.state]],
           !.fault = IF grants THEN flow.fault ELSE "denied",
           !.redirects = flow.redirects + 1]
    /\ UNCHANGED << nonFlowVars, authVars >>

NextFlow ==
    \/ \E host \in AuthHosts, https \in BOOLEAN :
           \E env \in FlowEnvs([host |-> host, https |-> https, path |-> ContentPath,
                                query |-> NoQuery]) : FlowStart(host, https, env)
    \/ \E env \in FlowEnvs(RequestFor(flow.next)) : FlowFollow(env)
    \/ \E grants \in BOOLEAN : FlowIdentityProvider(grants)

(***************************************************************************)
(* The GitLab source: Poll(retries, interval) and its status checker.      *)
(***************************************************************************)
\* the errors a status check returns: client.ConnectionErrorMsg and two
\* others, and the intervals a caller passes (in units of 5ms)
ConnectionErrorMsg == "failed to connect to internal Pages API"
StatusErrors == {ConnectionErrorMsg, "unauthorized", "context deadline exceeded"}
PollIntervals == {1, 2}
NoError == "nil"

\* the error Poll returns when every attempt failed: the context, the count
\* and the wrapped status error
PollError(attempts, cause) ==
    [context |-> "polling failed after", attempts |-> attempts, cause |-> cause]

\* the nil error that Poll returns
NilError == [context |-> "", attempts |-> 0, cause |-> NoError]

\* strings.Contains on the error's message
ErrorContains(err, text) == err # NilError /\ (err.context = text \/ err.cause = text)

IdlePoll ==
    [phase |-> "idle", retries |-> 0, interval |-> 1, failed |-> 0, checks |-> 0,
     slept |-> 0, lastErr |-> NoError, result |-> NilError]

\* the loop's condition with an attempt one short
PollContinuesBelow(failed, retries) == failed < retries

\* the loop's condition: the first attempt and `retries` more
PollContinues(failed, retries) == failed <= retries

InitPoll == poll = IdlePoll

\* a caller calls Poll(retries, interval)
PollCall(retries, interval) ==
    /\ poll.phase # "running"
    /\ poll' = [IdlePoll EXCEPT !.phase = IF PollContinues(0, retries) THEN "running"
                                          ELSE "returned",
                                !.retries = retries, !.interval = interval,
                                !.result = IF PollContinues(0, retries) THEN NilError
                                           ELSE PollError(0, NoError)]
    /\ UNCHANGED nonPollVars

\* one turn of the loop: the status check, and on an error the sleep and the
\* decision to go on or to return the wrapped error
PollAttempt(status) ==
    /\ poll.phase = "running"
    /\ poll' =
          IF status = NoError
          THEN [poll EXCEPT !.phase = "returned", !.checks = poll.checks + 1,
                            !.result = NilError]
          ELSE LET failed == poll.failed + 1 IN
               [poll EXCEPT !.checks = poll.checks + 1,
                            !.failed = failed,
                            !.lastErr = status,
                            !.slept = poll.slept + poll.interval,
                            !.phase = IF PollContinues(failed, poll.retries)
                                      THEN "running" ELSE "returned",
                            !.result = IF PollContinues(failed, poll.retries)
                                       THEN NilError
                                       ELSE PollError(failed, status)]
    /\ UNCHANGED nonPollVars

NextPoll ==
    \/ \E retries \in 0 .. MaxRetries, interval \in PollIntervals :
           PollCall(retries, interval)
    \/ \E status \in StatusErrors \cup {NoError} : PollAttempt(status)

(***************************************************************************)
(* Redirects: the rules of a _redirects file and Rewrite.                  *)
(***************************************************************************)
\* request paths and rule sources, with and without a trailing slash
CakePortal == << "/", "cake-portal" >>
CakePortalSlash == << "/", "cake-portal", "/" >>
GotoHtml == << "/", "goto", ".", "html" >>
RedirectPaths == {CakePortal, CakePortalSlash, GotoHtml}

\* rule destinations: two paths and a bare domain
StillAlive == << "/", "still-alive" >>
StillAliveSlash == << "/", "still-alive", "/" >>
BareDomain == << "GitLab", ".", "com" >>
RedirectDestinations == {StillAlive, StillAliveSlash, BareDomain}

\* the status a rule of the file gives for its destination
StatusOf(to) == IF to = StillAliveSlash THEN 302 ELSE 301

RedirectRules ==
    {[from |-> f, to |-> t, status |-> StatusOf(t)] :
        f \in RedirectPaths, t \in RedirectDestinations}

RuleFiles == UNION {[1 .. n -> RedirectRules] : n \in 0 .. MaxRules}

NoRewriteURL == << >>
ErrNoRedirect == "no redirect found"
NoRewrite == [path |-> << >>, url |-> NoRewriteURL, status |-> 0, err |-> "none"]

\* a path without its trailing slash
normalizePath(p) ==
    IF Len(p) > 1 /\ p[Len(p)] = "/" THEN SubSeq(p, 1, Len(p) - 1) ELSE p

\* a destination is valid when it is a path
validDestination(to) == to # << >> /\ to[1] = "/"

\* a rule is used whatever its destination
ruleMatchesAnyDestination(rule, path) ==
    normalizePath(rule.from) = normalizePath(path)

\* a rule is used for a path when the sources agree and the destination is valid
ruleMatches(rule, path) ==
    normalizePath(rule.from) = normalizePath(path) /\ validDestination(rule.to)

\* the first rule that is used, as an index, or 0
RECURSIVE matchFrom(_, _, _)
matchFrom(rules, path, i) ==
    IF i > Len(rules) THEN 0
    ELSE IF ruleMatches(rules[i], path) THEN i
         ELSE matchFrom(rules, path, i + 1)

\* Redirects.Rewrite
Rewrite(rules, path) ==
    LET i == matchFrom(rules, path, 1) IN
    IF i = 0
    THEN [path |-> path, url |-> NoRewriteURL, status |-> 0, err |-> ErrNoRedirect]
    ELSE [path |-> path, url |-> rules[i].to, status |-> rules[i].status, err |-> "nil"]

InitRewrite ==
    /\ redirectRules = [parsed |-> FALSE, rules |-> << >>]
    /\ rewritten = NoRewrite

\* ParseRedirects: the Redirects of a deployment, from its _redirects file,
\* which may hold no rule
ParseRedirects(rules) ==
    /\ ~redirectRules.parsed
    /\ redirectRules' = [parsed |-> TRUE, rules |-> rules]
    /\ UNCHANGED << rewritten, nonRewriteVars >>

\* a request for the path is rewritten
RedirectsRewrite(path) ==
    /\ redirectRules.parsed
    /\ rewritten' = Rewrite(redirectRules.rules, path)
    /\ UNCHANGED << redirectRules, nonRewriteVars >>

NextRewrite ==
    \/ \E rules \in RuleFiles : ParseRedirects(rules)
    \/ \E path \in RedirectPaths : RedirectsRewrite(path)

(***************************************************************************)
(* The per-domain rate limiter: one host's rate.Limiter.  An instant is a  *)
(* clock tick, perDomainFrequency is TicksPerPeriod ticks, and tokens are  *)
(* counted in units of 1/TicksPerPeriod, so that a tick refills one unit.  *)
(***************************************************************************)
\* perDomainFrequency, in clock ticks
TicksPerPeriod == 2

MaxTicks == (BurstSize + 1) * TicksPerPeriod + ExtraTicks
Instants == 0 .. MaxTicks

TokenUnits == TicksPerPeriod
BurstUnits == BurstSize * TokenUnits

\* the zero time.Time of a new limiter's last, and the duration that
\* Time.Sub saturates to, which refills any bucket
ZeroTime == 0 - 1
maxDuration == BurstUnits + 1

NoLimiter == [last |-> ZeroTime, tokens |-> 0 - 1]

\* rate.NewLimiter(rate.Every(perDomainFrequency), perDomainBurstSize)
NewLimiter == [last |-> ZeroTime, tokens |-> 0]

\* lru.FindOrFetch: the cached limiter of the host, or a new one
getDomainCounter == IF domainsCache = NoLimiter THEN NewLimiter ELSE domainsCache

Least(a, b) == IF a < b THEN a ELSE b

elapsedSince(last, t) == IF last = ZeroTime THEN maxDuration ELSE t - Least(last, t)

\* the refill without the burst's cap
advanceUncapped(lim, t) == lim.tokens + elapsedSince(lim.last, t)

\* Limiter.advance: the tokens at t
advance(lim, t) == Least(BurstUnits, lim.tokens + elapsedSince(lim.last, t))

\* Limiter.AllowN(t, 1): whether the request is allowed and the limiter after
AllowN(lim, t) ==
    LET tokens == advance(lim, t) - TokenUnits
        ok == tokens >= 0 /\ 1 <= BurstSize
    IN  [ok |-> ok, lim |-> IF ok THEN [last |-> t, tokens |-> tokens] ELSE lim]

NoDecision == [at |-> ZeroTime, allowed |-> FALSE]

InitRate ==
    /\ rlNow = 0
    /\ domainsCache = NoLimiter
    /\ rlAllowedAt = [t \in Instants |-> 0]
    /\ rlDecision = NoDecision

\* time passes
ClockTick ==
    /\ rlNow < MaxTicks
    /\ rlNow' = rlNow + 1
    /\ UNCHANGED << domainsCache, rlAllowedAt, rlDecision, nonRateVars >>

\* RateLimiter.DomainAllowed for the host
DomainAllowed ==
    LET res == AllowN(getDomainCounter, rlNow) IN
    /\ domainsCache' = res.lim
    /\ rlDecision' = [at |-> rlNow, allowed |-> res.ok]
    /\ rlAllowedAt' = IF res.ok
                      THEN [rlAllowedAt EXCEPT ![rlNow] = rlAllowedAt[rlNow] + 1]
                      ELSE rlAllowedAt
    /\ UNCHANGED << rlNow, nonRateVars >>

NextRate ==
    \/ ClockTick
    \/ DomainAllowed

(***************************************************************************)
(* Zip VFS: Open and Lstat on an opened archive.                           *)
(***************************************************************************)
\* the records of a central directory, all under public/: a stored and a
\* deflated regular file, a directory record, a symlink, a named pipe and a
\* regular file with another compression method
IndexHtml == << "public", "/", "index.html" >>
DeepFile == << "public", "/", "d", "/", "e", "/", "g.html" >>
DirRecord == << "public", "/", "d", "/" >>
LinkRecord == << "public", "/", "link" >>
PipeRecord == << "public", "/", "fifo" >>
Bzip2File == << "public", "/", "x.bz2" >>
ArchiveEntryUniverse ==
    {IndexHtml, DeepFile, DirRecord, LinkRecord, PipeRecord, Bzip2File}

\* file.Mode() of a record
ModeOf(e) ==
    IF IsDirName(e) THEN "dir"
    ELSE IF e = LinkRecord THEN "symlink"
    ELSE IF e = PipeRecord THEN "namedPipe"
    ELSE "regular"

\* FileMode.IsRegular
IsRegular(mode) == mode = "regular"

\* file.Method of a record
MethodOf(e) ==
    IF e = DeepFile THEN "Deflate" ELSE IF e = Bzip2File THEN "BZIP2" ELSE "Store"

\* the names given to Open and Lstat
ArchiveNames ==
    { << "index.html" >>,
      << "d", "/", "e", "/", "g.html" >>,
      << "d", "/", "e" >>,
      << "d" >>,
      << "link" >>,
      << "fifo" >>,
      << "x.bz2" >>,
      << "missing.html" >> }

errNotFile == "not a file"
ErrNotExist == "file does not exist"
ErrUnsupported == "unsupported compression method"
ErrDataOffset == "data offset not read"
NoReader == "nil"

NoArchiveCall ==
    [op |-> "none", name |-> NoEntry, reader |-> NoReader, info |-> NoEntry, err |-> "nil"]

\* zipArchive.Open; offsetOk: the data offset of the entry could be read
Open(name, offsetOk) ==
    LET file == findFile(name) IN
    IF file = NoEntry
    THEN [reader |-> NoReader,
          err |-> IF findDirectory(name) # NoEntry THEN errNotFile ELSE ErrNotExist]
    ELSE IF ~IsRegular(ModeOf(file)) THEN [reader |-> NoReader, err |-> errNotFile]
    ELSE IF ~offsetOk THEN [reader |-> NoReader, err |-> ErrDataOffset]
    ELSE IF MethodOf(file) = "Deflate" THEN [reader |-> "deflateReader", err |-> "nil"]
    ELSE IF MethodOf(file) = "Store" THEN [reader |-> "sectionReader", err |-> "nil"]
    ELSE [reader |-> NoReader, err |-> ErrUnsupported]

\* zipArchive.Lstat
Lstat(name) ==
    IF findFile(name) # NoEntry THEN [info |-> findFile(name), err |-> "nil"]
    ELSE IF findDirectory(name) # NoEntry THEN [info |-> findDirectory(name), err |-> "nil"]
    ELSE [info |-> NoEntry, err |-> ErrNotExist]

InitArchive == archiveCall = NoArchiveCall

ArchiveOpen(name, offsetOk) ==
    /\ aOpened
    /\ archiveCall' = [op |-> "Open", name |-> name, reader |-> Open(name, offsetOk).reader,
                       info |-> NoEntry, err |-> Open(name, offsetOk).err]
    /\ UNCHANGED nonArchiveVars

ArchiveLstat(name) ==
    /\ aOpened
    /\ archiveCall' = [op |-> "Lstat", name |-> name, reader |-> NoReader,
                       info |-> Lstat(name).info, err |-> Lstat(name).err]
    /\ UNCHANGED nonArchiveVars

NextArchive ==
    \/ \E entries \in SUBSET ArchiveEntryUniverse :
           ReadArchiveEntries(entries)
    \/ \E name \in ArchiveNames, offsetOk \in BOOLEAN : ArchiveOpen(name, offsetOk)
    \/ \E name \in ArchiveNames : ArchiveLstat(name)

(***************************************************************************)
(* Zip VFS: the data offset cache, for the archives of one key.            *)
(***************************************************************************)
Namespaces == 1 .. MaxInstances
OffsetNames == { << "index.html" >>, << "g.html" >>, << "d", "/", "f.html" >> }
NoNamespace == 0

\* newArchive: the cacheNamespace of the next archive,
\* strconv.FormatInt(atomic.AddInt64(fs.archiveCount, 1), 10) + ":"
cacheNamespace(count) == count + 1

NoOffsetCall == [namespace |-> NoNamespace, name |-> NoEntry, fetched |-> FALSE]

InitOffsets ==
    /\ keyArchive = NoNamespace
    /\ namespaceCount = 0
    /\ dataOffsetCache = {}
    /\ headerReads = [k \in Namespaces \X OffsetNames |-> 0]
    /\ offsetCall = NoOffsetCall

\* findOrOpenArchive on a miss: newArchive, and the archive is cached
CacheNewArchive ==
    /\ keyArchive = NoNamespace
    /\ namespaceCount < MaxInstances
    /\ namespaceCount' = namespaceCount + 1
    /\ keyArchive' = cacheNamespace(namespaceCount)
    /\ UNCHANGED << dataOffsetCache, headerReads, offsetCall, nonOffsetsVars >>

\* the archive is removed from the cache: onEvicted
EvictArchive ==
    /\ keyArchive # NoNamespace
    /\ keyArchive' = NoNamespace
    /\ UNCHANGED << namespaceCount, dataOffsetCache, headerReads, offsetCall,
                    nonOffsetsVars >>

\* Open, lines 255-260: dataOffsetCache.FindOrFetch(a.cacheNamespace, name,
\* file.DataOffset)
OpenDataOffset(name) ==
    LET key == << keyArchive, name >> IN
    /\ keyArchive # NoNamespace
    /\ IF key \in dataOffsetCache
       THEN /\ offsetCall' = [namespace |-> keyArchive, name |-> name, fetched |-> FALSE]
            /\ UNCHANGED << dataOffsetCache, headerReads >>
       ELSE /\ offsetCall' = [namespace |-> keyArchive, name |-> name, fetched |-> TRUE]
            /\ dataOffsetCache' = dataOffsetCache \cup {key}
            /\ headerReads' = [headerReads EXCEPT ![key] = headerReads[key] + 1]
    /\ UNCHANGED << keyArchive, namespaceCount, nonOffsetsVars >>

NextOffsets ==
    \/ CacheNewArchive
    \/ EvictArchive
    \/ \E name \in OffsetNames : OpenDataOffset(name)

(***************************************************************************)
(* The domain's certificate: ensureCertificate, called by the TLS          *)
(* handshakes of concurrent connections.                                   *)
(***************************************************************************)
Handshakes == 1 .. NumHandshakes
NilCertificate == 0
NoReturn == [cert |-> NilCertificate, err |-> "none"]

InitCert ==
    /\ keyPair = "unset"
    /\ certificate = NilCertificate
    /\ parses = 0
    /\ certPC = [c \in Handshakes |-> "idle"]
    /\ certLocal = [c \in Handshakes |-> NilCertificate]
    /\ certRet = [c \in Handshakes |-> NoReturn]

\* the domain is configured with a certificate and a key
ConfigureDomain(valid) ==
    /\ keyPair = "unset"
    /\ keyPair' = IF valid THEN "valid" ELSE "invalid"
    /\ UNCHANGED << certificate, parses, certPC, certLocal, certRet, nonCertVars >>

\* ensureCertificate, lines 100-102: the test of d.certificate
EnsureCertificateCheck(c) ==
    /\ keyPair # "unset"
    /\ certPC[c] = "idle"
    /\ IF certificate # NilCertificate
       THEN /\ certRet' = [certRet EXCEPT ![c] = [cert |-> certificate, err |-> "nil"]]
            /\ certPC' = [certPC EXCEPT ![c] = "done"]
       ELSE /\ certPC' = [certPC EXCEPT ![c] = "parse"]
            /\ UNCHANGED certRet
    /\ UNCHANGED << keyPair, certificate, parses, certLocal, nonCertVars >>

\* ensureCertificate, lines 104-107: tls.X509KeyPair
EnsureCertificateParse(c) ==
    /\ certPC[c] = "parse"
    /\ IF keyPair = "valid"
       THEN /\ parses' = parses + 1
            /\ certLocal' = [certLocal EXCEPT ![c] = parses + 1]
            /\ certPC' = [certPC EXCEPT ![c] = "store"]
            /\ UNCHANGED certRet
       ELSE /\ certRet' = [certRet EXCEPT ![c] = [cert |-> NilCertificate,
                                                   err |-> "x509 error"]]
            /\ certPC' = [certPC EXCEPT ![c] = "done"]
            /\ UNCHANGED << parses, certLocal >>
    /\ UNCHANGED << keyPair, certificate, nonCertVars >>

\* ensureCertificate, line 109: d.certificate = &tls
EnsureCertificateStore(c) ==
    /\ certPC[c] = "store"
    /\ certificate' = certLocal[c]
    /\ certPC' = [certPC EXCEPT ![c] = "return"]
    /\ UNCHANGED << keyPair, parses, certLocal, certRet, nonCertVars >>

\* ensureCertificate, line 110: return d.certificate, nil
EnsureCertificateReturn(c) ==
    /\ certPC[c] = "return"
    /\ certRet' = [certRet EXCEPT ![c] = [cert |-> certificate, err |-> "nil"]]
    /\ certPC' = [certPC EXCEPT ![c] = "done"]
    /\ UNCHANGED << keyPair, certificate, parses, certLocal, nonCertVars >>

NextCert ==
    \/ \E valid \in BOOLEAN : ConfigureDomain(valid)
    \/ \E c \in Handshakes : EnsureCertificateCheck(c)
    \/ \E c \in Handshakes : EnsureCertificateParse(c)
    \/ \E c \in Handshakes : EnsureCertificateStore(c)
    \/ \E c \in Handshakes : EnsureCertificateReturn(c)

\* ---------------------------------------------------------------------
\* Entry points of a process whose Auth pointer may be nil
\* (src/unnamed/part_008: TryAuthenticate 123-126, CheckAuthenticationWithoutProject
\* 526-533, CheckAuthentication 560-572)
\* ---------------------------------------------------------------------
GateHosts == { HostA }
GateRequests == { r \in ContentRequests : r.host \in GateHosts }
GateCallbacks(codes) == { r \in AuthRequests(codes) : r.host \in GateHosts }

InitGate ==
    gate = [auth |-> "unset", entry |-> "none"]

\* the older draft of the method (part_008:1047-1052) falls back to public pages
CheckAuthenticationPublicFallback(nilAuth, r, cookie, env) ==
    IF nilAuth THEN NotHandled(cookie)
    ELSE checkAuthentication(r, cookie, env)

\* CheckAuthentication: a nil Auth serves 500 and reports the request as handled
CheckAuthenticationOf(nilAuth, r, cookie, env) ==
    IF nilAuth THEN Outcome(TRUE, "500", NoAddress, cookie)
    ELSE checkAuthentication(r, cookie, env)

\* CheckAuthenticationWithoutProject: a nil Auth means no auth supported
CheckAuthenticationWithoutProjectOf(nilAuth, r, cookie, env) ==
    IF nilAuth THEN NotHandled(cookie)
    ELSE checkAuthentication(r, cookie, env)

\* TryAuthenticate: a nil Auth handles nothing
TryAuthenticateOf(nilAuth, r, cookie, env) ==
    IF nilAuth THEN NotHandled(cookie)
    ELSE TryAuthenticateOutcome(r, cookie, env)

\* the process is started with or without authentication settings
NewAuth(configured) ==
    /\ gate.auth = "unset"
    /\ gate' = [gate EXCEPT !.auth = IF configured THEN "configured" ELSE "nil"]
    /\ UNCHANGED nonGateVars

GateCall(entry, r, env, out) ==
    /\ gate.auth # "unset"
    /\ gate' = [gate EXCEPT !.entry = entry]
    /\ authReq' = r
    /\ authCookie' = [session |-> sessions[r.host], ok |-> env.cookieOK]
    /\ authOut' = IF gate.auth = "nil" THEN out ELSE WithSetCookie(r, out)
    /\ sessions' = [sessions EXCEPT ![r.host] = authOut'.session]
    /\ UNCHANGED nonAuthGateVars

GateTryAuthenticate(r, env) ==
    GateCall("TryAuthenticate", r, env,
             TryAuthenticateOf(gate.auth = "nil", r, sessions[r.host], env))

GateCheckAuthentication(r, env) ==
    GateCall("CheckAuthentication", r, env,
             CheckAuthenticationOf(gate.auth = "nil", r, sessions[r.host], env))

GateCheckAuthenticationWithoutProject(r, env) ==
    GateCall("CheckAuthenticationWithoutProject", r, env,
             CheckAuthenticationWithoutProjectOf(gate.auth = "nil", r, sessions[r.host], env))

NextAuthNil ==
    \/ \E configured \in BOOLEAN : NewAuth(configured)
    \/ \E r \in GateCallbacks(PresentableCodes), env \in TryEnvs : GateTryAuthenticate(r, env)
    \/ \E r \in GateRequests, env \in CheckEnvs : GateCheckAuthentication(r, env)
    \/ \E r \in GateRequests, env \in CheckEnvs : GateCheckAuthenticationWithoutProject(r, env)

\* ---------------------------------------------------------------------
\* Looking a recorded file up again (archive.go: readArchive 140-155,
\* guessPublicDirectoryName 207-227, findFile 229-233, Lstat, Open)
\* ---------------------------------------------------------------------
\* central directories with and without one of the well-known root folders
FindEntryUniverse ==
    { << "public", "/", "index.html" >>,
      << "public", "/", "d", "/", "f.html" >>,
      << "site", "/", "a.html" >>,
      << "docs", "/", "b.html" >>,
      << "docs", "/", "c", "/", "d.html" >>,
      << "readme.html" >> }

\* a recorded name that lies under the public prefix (every name does under
\* the empty prefix)
UnderPrefix(f, pub) == pub = << >> \/ HasPrefix(f, pub \o Slash)

\* the path of a recorded name relative to the public prefix
RelativeTo(f, pub) ==
    IF pub = << >> THEN f ELSE SubSeq(f, Len(pub) + 2, Len(f))

\* the relative paths of the files readArchive recorded
RecordedPaths ==
    { RelativeTo(f, publicDirectoryName) :
        f \in { x \in aFiles : UnderPrefix(x, publicDirectoryName) } }

NextFind ==
    \/ \E entries \in SUBSET FindEntryUniverse : ReadArchiveEntries(entries)
    \/ \E name \in RecordedPaths, offsetOk \in BOOLEAN : ArchiveOpen(name, offsetOk)
    \/ \E name \in RecordedPaths : ArchiveLstat(name)

\* ---------------------------------------------------------------------
\* Two runs of one RateLimiter configuration, side by side: both get the
\* same requests for RlHostA at the same instants, each gets requests for
\* RlHostB of its own (vfs.go: getDomainCounter 209-216, DomainAllowed
\* 218-224; the domains cache is internal/lru)
\* ---------------------------------------------------------------------
Runs == 1 .. 2
RlHostA == "a.example"
RlHostB == "b.example"
RlHosts == { RlHostA, RlHostB }

\* a cache that keeps one bucket for all hosts
domainKeyShared(host) == "domains"

\* getDomainCounter: FindOrFetch(domain, domain, ...), the host is the key
domainKey(host) == host

RlKeys == { domainKey(h) : h \in RlHosts }

\* lru.FindOrFetch in a run's cache: the cached limiter of the key, or a
\* new one
FindOrFetchLimiter(cache, key) == IF cache[key] = NoLimiter THEN NewLimiter ELSE cache[key]

\* RateLimiter.DomainAllowed(host) in a run's cache at instant t
DomainAllowedIn(cache, host, t) ==
    LET res == AllowN(FindOrFetchLimiter(cache, domainKey(host)), t)
    IN  [ok |-> res.ok, cache |-> [cache EXCEPT ![domainKey(host)] = res.lim]]

InitPair ==
    pair = [ now |-> 0,
             cache |-> [i \in Runs |-> [k \in RlKeys |-> NoLimiter]],
             answer |-> [i \in Runs |-> NoDecision],
             evictedA |-> FALSE ]

\* time passes, in both runs
PairTick ==
    /\ pair.now < PairMaxTicks
    /\ pair' = [pair EXCEPT !.now = @ + 1]
    /\ UNCHANGED nonPairVars

\* a request for RlHostA, made in both runs at the same instant
PairRequestA ==
    /\ pair' = [pair EXCEPT
          !.cache = [i \in Runs |-> DomainAllowedIn(pair.cache[i], RlHostA, pair.now).cache],
          !.answer = [i \in Runs |->
              [at |-> pair.now,
               allowed |-> DomainAllowedIn(pair.cache[i], RlHostA, pair.now).ok]]]
    /\ UNCHANGED nonPairVars

\* a request for the other host, made in one run only
PairRequestOther(i) ==
    /\ pair' = [pair EXCEPT
          !.cache[i] = DomainAllowedIn(pair.cache[i], RlHostB, pair.now).cache]
    /\ UNCHANGED nonPairVars

\* the cache of a run discards the bucket of a host (size or idle time)
PairEvict(i, host) ==
    /\ pair.cache[i][domainKey(host)] # NoLimiter
    /\ pair' = [pair EXCEPT !.cache[i][domainKey(host)] = NoLimiter,
                            !.evictedA = @ \/ host = RlHostA]
    /\ UNCHANGED nonPairVars

NextPair ==
    \/ PairTick
    \/ PairRequestA
    \/ \E i \in Runs : PairRequestOther(i)
    \/ \E i \in Runs, host \in RlHosts : PairEvict(i, host)

\* ---------------------------------------------------------------------
\* The gauge of cached entries, for one cache key (archive.go: readArchive
\* 104-164, onEvicted 336-339; vfs.go: New 38-48, findOrCreateArchive)
\* ---------------------------------------------------------------------
Instances == 1 .. MaxInstances
NoInstance == 0

\* the regular files in the central directory of the a-th archive
FileCount(a) == a

NewInstance == [stage |-> "none", files |-> 0, dropped |-> 0]

InitEntries ==
    entryCache = [ cached |-> NoInstance, expired |-> FALSE, count |-> 0,
                archives |-> [a \in Instances |-> NewInstance],
                deletables |-> {}, evicted |-> {}, gauge |-> 0 ]

\* len(a.files) as a goroutine other than readArchive's may read it:
\* readArchive fills the map with no lock while it indexes the directory
FilesSeen(a) ==
    IF entryCache.archives[a].stage = "indexing" THEN 0 .. FileCount(a)
    ELSE {entryCache.archives[a].files}

\* onEvicted: subtracts len(a.files) as it is when the callback runs
onEvicted(a, seen) == seen

\* findOrCreateArchive on a miss: a new archive is set for the key, the item
\* it replaces is left to the cache's worker, and openArchive starts
\* readArchive
EntriesFindOrCreate ==
    /\ entryCache.cached = NoInstance \/ entryCache.expired
    /\ entryCache.count < MaxInstances
    /\ entryCache' = [entryCache EXCEPT
          !.count = @ + 1,
          !.cached = entryCache.count + 1,
          !.expired = FALSE,
          !.archives[entryCache.count + 1].stage = "reading",
          !.deletables = IF entryCache.cached # NoInstance
                         THEN @ \cup {entryCache.cached} ELSE @]
    /\ UNCHANGED nonEntriesVars

\* the item's time to live passes
EntriesExpire ==
    /\ entryCache.cached # NoInstance
    /\ ~entryCache.expired
    /\ entryCache' = [entryCache EXCEPT !.expired = TRUE]
    /\ UNCHANGED nonEntriesVars

\* the cache is over its size and its worker prunes the item
EntriesPrune ==
    /\ entryCache.cached # NoInstance
    /\ entryCache' = [entryCache EXCEPT !.cached = NoInstance, !.expired = FALSE,
                                  !.deletables = @ \cup {entryCache.cached}]
    /\ UNCHANGED nonEntriesVars

\* readArchive, lines 117-138: the resource and the zip reader are made, or
\* one of them fails and readArchive returns
EntriesReadArchive(a, ok) ==
    /\ entryCache.archives[a].stage = "reading"
    /\ entryCache' = [entryCache EXCEPT
          !.archives[a].stage = IF ok THEN "indexing" ELSE "failed"]
    /\ UNCHANGED nonEntriesVars

\* readArchive, lines 140-164: the files are indexed and their number is
\* added to the gauge
EntriesReadArchiveIndex(a) ==
    /\ entryCache.archives[a].stage = "indexing"
    /\ entryCache' = [entryCache EXCEPT
          !.archives[a].stage = "done",
          !.archives[a].files = FileCount(a),
          !.gauge = @ + FileCount(a)]
    /\ UNCHANGED nonEntriesVars

\* the OnDelete callback of New: onEvicted of the deleted archive
EntriesOnDelete(a) ==
    /\ a \in entryCache.deletables
    /\ \E seen \in FilesSeen(a) :
           entryCache' = [entryCache EXCEPT
              !.deletables = @ \ {a},
              !.evicted = @ \cup {a},
              !.archives[a].dropped = onEvicted(a, seen),
              !.gauge = @ - onEvicted(a, seen)]
    /\ UNCHANGED nonEntriesVars

NextEntries ==
    \/ EntriesFindOrCreate
    \/ EntriesExpire
    \/ EntriesPrune
    \/ \E a \in Instances, ok \in BOOLEAN : EntriesReadArchive(a, ok)
    \/ \E a \in Instances : EntriesReadArchiveIndex(a)
    \/ \E a \in Instances : EntriesOnDelete(a)

Next ==
    \/ \E c \in Callers, u \in URLs : RootInvalidURL(c, u)
    \/ \E c \in Callers, u \in URLs : FindOrOpenArchive(c, u)
    \/ \E c \in Callers : OpenArchiveSetURL(c)
    \/ \E c \in Callers : OpenArchiveAlreadyDone(c)
    \/ \E c \in Callers : OpenArchiveOnce(c)
    \/ \E c \in Callers : OpenArchiveDone(c)
    \/ \E c \in Callers : OpenArchiveCtxDone(c)
    \/ \E a \in ArchiveIds, ok \in BOOLEAN : ReadArchiveNewResource(a, ok)
    \/ \E a \in ArchiveIds, ok \in BOOLEAN : ReadArchiveParse(a, ok)
    \/ \E a \in ArchiveIds : ResourceError(a)
    \/ \E k \in Keys : Expire(k)
    \/ \E a \in ArchiveIds : OnDelete(a)

Init ==
    /\ InitZip /\ InitPaths /\ InitResolve /\ InitLimiter /\ InitApp /\ InitAuth
    /\ InitFlow
    /\ InitPoll
    /\ InitRewrite
    /\ InitRate
    /\ InitArchive
    /\ InitOffsets
    /\ InitCert
    /\ InitGate
    /\ InitPair
    /\ InitEntries

Spec == Init /\ [][Next]_vars

SpecPaths == Init /\ [][NextPaths]_vars

SpecResolve == Init /\ [][NextResolve]_vars

SpecLimiter == Init /\ [][NextLimiter]_vars

SpecApp == Init /\ [][NextApp]_vars

SpecAuthNil == Init /\ [][NextAuthNil]_vars
SpecFind == Init /\ [][NextFind]_vars
SpecPair == Init /\ [][NextPair]_vars
SpecEntries == Init /\ [][NextEntries]_vars
SpecAuth == Init /\ [][NextAuth]_vars

\* the client keeps following redirects
SpecAuthFlow == Init /\ [][NextFlow]_vars /\ WF_vars(NextFlow)

SpecCert == Init /\ [][NextCert]_vars

SpecOffsets == Init /\ [][NextOffsets]_vars

SpecArchive == Init /\ [][NextArchive]_vars

SpecRate == Init /\ [][NextRate]_vars

SpecRewrite == Init /\ [][NextRewrite]_vars

\* Poll's goroutine keeps running
SpecPoll == Init /\ [][NextPoll]_vars /\ WF_vars(NextPoll)

\* the limiter with its goroutines scheduled: a Close that closed the
\* underlying listener goes on to close done, and an Accept whose select or
\* underlying Accept can return does return
SpecLimiterFair ==
    /\ Init /\ [][NextLimiter]_vars
    /\ \A l \in Listeners :
           /\ WF_vars(CloseListenerDone(l))
           /\ WF_vars(AcquireClosed(l))
           /\ WF_vars(AcceptError(l))

(***************************************************************************)
(* Zip VFS: the claims.                                                    *)
(***************************************************************************)
\* a caller inside findOrOpenArchive
InCall(c) == pc[c] \in {"locked", "opening", "waiting"}
\* a caller inside findOrOpenArchive that has not reached a.once.Do yet
BeforeOnce(c) == pc[c] \in {"locked", "opening"}
Created == 1 .. archiveCount

\* C1: whatever the number of Root calls that resolve to one archive
\* instance, readArchive is started at most once for it, and exactly once as
\* soon as one of its callers has passed the once gate: the number of parses
\* is the number of archive instances opened, not the number of callers.
C1_SingleFlight ==
    /\ \A a \in ArchiveIds : archives[a].reads <= 1
    /\ \A a \in ArchiveIds : a \notin Created => archives[a].reads = 0
    /\ \A a \in Created :
           \/ archives[a].reads = 1
           \/ \E c \in Callers : BeforeOnce(c) /\ callArch[c] = a
    /\ \A c \in Callers :
           pc[c] \in {"waiting", "returned"} /\ callArch[c] # NoArchive
               => archives[callArch[c]].reads = 1

\* C1 happens: a caller gave up on the only archive, a second caller waits
\* for the same archive, and the archive was read once.
C1_Witness ==
    \E c1, c2 \in Callers :
        /\ c1 # c2
        /\ pc[c1] = "returned" /\ pc[c2] = "waiting"
        /\ callArch[c1] = callArch[c2] /\ callArch[c1] # NoArchive
        /\ archives[callArch[c1]].reads = 1

\* C2 (as claimed): cacheMu is not held while a caller waits for an archive
\* to be opened.
C2_LockNotHeldAcrossOpen ==
    \A c \in Callers : pc[c] = "waiting" => cacheMu # c

\* C3: a caller that returns anything but its context's error does so only
\* once the parse is done and returns the archive's own error state; a caller
\* that returns the context error leaves the single parse as it is (started
\* once, never started again), so the archive's later callers share it.
C3_CancelledCallerLeavesParse ==
    \A c \in Callers :
        pc[c] = "returned" /\ callArch[c] # NoArchive =>
            LET a == archives[callArch[c]] IN
            /\ a.reads = 1
            /\ ret[c] \in {"ctxErr", "nil", "openError", "corrupted"}
            /\ ret[c] # "ctxErr" => a.parse = "done"
            /\ ret[c] = "nil" => ~a.err
            /\ ret[c] = "openError" => a.err
            /\ ret[c] = "corrupted" => ~a.err /\ a.resErr

\* C3 happens: a caller returned the context error while the archive is still
\* opening, the parse goes on, and a later caller waits for the same parse.
C3_Witness ==
    \E c1, c2 \in Callers :
        /\ c1 # c2
        /\ pc[c1] = "returned" /\ ret[c1] = "ctxErr"
        /\ pc[c2] = "waiting" /\ callArch[c2] = callArch[c1]
        /\ OpenStatus(callArch[c1]) = "archiveOpening"
        /\ archives[callArch[c1]].parse = "resource"
        /\ archives[callArch[c1]].reads = 1

\* nothing has expired or been replaced in the cache so far
NothingExpired ==
    /\ \A k \in Keys : ~cacheExpired[k]
    /\ deletables = {} /\ evicted = {}

\* C4 (as claimed): a Root call that follows a Root which returned an archive
\* for the same canonical URL uses that same archive, and one archive is
\* created in all, when nothing expired in between.
C4_SameEntryForCanonicalURL ==
    \A c \in Callers :
        InCall(c) /\ NothingExpired
          /\ lastRootArch[CanonicalKey(callURL[c])] # NoArchive
            => /\ callArch[c] = lastRootArch[CanonicalKey(callURL[c])]
               /\ archiveCount = 1

\* C5 (as claimed): once Root calls have returned their archives, every
\* cached archive of a canonical URL that has a resource reads from the URL of
\* the last of the calls for that canonical URL.
C5_ResourceURLRefreshed ==
    (\A c \in Callers : ~InCall(c) /\ (pc[c] = "returned" => ret[c] = "nil")) =>
        \A k \in CachedKeys :
            LET a == archives[cacheArch[k]] IN
            ~cacheExpired[k] /\ a.resource # NoURL
              /\ lastRootURL[CanonicalKey(k)] # NoURL
                => a.resource = lastRootURL[CanonicalKey(k)]

InPublicSubtree(e) ==
    publicDirectoryName = << >> \/ HasPrefix(e, publicDirectoryName \o Slash)

\* a path on disk inside the public directory's subtree
InPublicPathSubtree(f) == HasPrefix(f, publicPath \o Slash)

\* C7 (as claimed): whatever name is requested, the entry that Open, Lstat
\* or Readlink resolves, and the file that tryFile serves, lie in the subtree
\* of the public directory.
C7_PathSafety ==
    /\ foundFile # NoEntry => InPublicSubtree(foundFile)
    /\ foundDirectory # NoEntry => InPublicSubtree(foundDirectory)
    /\ tryServed # NoEntry => InPublicPathSubtree(tryServed)

\* C7's case: a name with ".." was looked up in an archive whose public
\* directory is "public", and resolved into a sibling directory
C7_Witness ==
    /\ publicDirectoryName = << "public" >>
    /\ lookName = << "..", "/", "public", "2", "/", "secret.html" >>
    /\ foundFile = << "public", "2", "/", "secret.html" >>

(***************************************************************************)
(* Resolve: the claims.                                                    *)
(***************************************************************************)
\* the lookup paths of the response whose Prefix is a prefix of the path
PrefixCandidates ==
    { i \in DOMAIN response.LookupPaths :
          HasPrefix(requestURLPath, response.LookupPaths[i]) }

\* C8 (as claimed): for a domain's response, Resolve chooses the lookup path
\* with the longest Prefix that is a prefix of the request path, whatever the
\* order of the response, and returns the request path with that prefix
\* stripped from its start; it matches nothing when no Prefix is a prefix of
\* the request path.  (Two distinct prefixes of one path never have the same
\* length, so no tie arises.)
C8_LongestPrefixWins ==
    response.kind = "domain" =>
        IF PrefixCandidates = {}
        THEN resolved.status = "noMatch"
        ELSE /\ resolved.status = "ok"
             /\ \E i \in PrefixCandidates :
                    /\ resolved.Prefix = response.LookupPaths[i]
                    /\ \A j \in PrefixCandidates :
                           Len(response.LookupPaths[j]) <= Len(response.LookupPaths[i])
             /\ resolved.requestPath =
                    SubSeq(requestURLPath, Len(resolved.Prefix) + 1, Len(requestURLPath))

\* C8's case: two lookup paths match and the shorter one comes first
C8_Witness ==
    /\ response.kind = "domain"
    /\ response.LookupPaths = << << "/" >>, << "/", "p", "/" >> >>
    /\ requestURLPath = << "/", "p", "/", "index.html" >>
    /\ resolved.status = "ok"
    /\ resolved.Prefix = << "/" >>

(***************************************************************************)
(* The shared connection limiter: the claims.                              *)
(***************************************************************************)
\* C9: the connections accepted through the listeners of the Limiter and not
\* yet closed are never more than its capacity; each of them holds one of the
\* slots taken.
C9_OpenConnsWithinCapacity ==
    /\ Cardinality(OpenConns) <= LimiterCapacity
    /\ Cardinality(OpenConns) <= sem
    /\ sem <= LimiterCapacity

\* C9's case: the pool is full of open connections and a further listener
\* waits in acquire
C9_Witness ==
    /\ Cardinality(OpenConns) = LimiterCapacity
    /\ sem = LimiterCapacity
    /\ \E l \in Listeners : acceptPC[l] = "acquire" /\ listenerState[l] = "open"

\* C10: however often Close is called on an accepted connection, its release
\* runs once: exactly one slot is given back, with the first Close.
C10_CloseReleasesOnce ==
    \A k \in Conns :
        /\ releases[k] <= 1
        /\ closeCalls[k] >= 1 => releases[k] = 1
        /\ closeCalls[k] = 0 => releases[k] = 0
        /\ sem = Cardinality(OpenConns)
                   + Cardinality({ l \in Listeners : acceptPC[l] = "accept" /\ acquired[l] })

\* C10's case: Close was called twice on a connection while another
\* connection holds a slot, and one slot came back
C10_Witness ==
    \E k \in Conns :
        /\ closeCalls[k] = 2 /\ releases[k] = 1
        /\ OpenConns # {} /\ sem = Cardinality(OpenConns)

\* the Accept of a listener being closed returns, under the scheduling of
\* SpecLimiterFair
AcceptReturnsAfterClose ==
    \A l \in Listeners : (listenerState[l] = "closing") ~> (acceptPC[l] = "stopped")

\* C11: an Accept waiting for a slot is not blocked once its listener's done
\* is closed, and an Accept whose underlying listener is closed can return
\* its error; an Accept that returned an error holds no slot; the slots taken
\* are those of the open connections and of the Accept calls that acquired
\* and have not returned, so all slots are free once every connection is
\* closed and every Accept has returned.
C11_CloseUnblocksWithoutLeak ==
    /\ \A l \in Listeners :
           /\ acceptPC[l] = "acquire" /\ listenerState[l] = "closed"
                 => ENABLED AcquireClosed(l)
           /\ acceptPC[l] = "accept" /\ listenerState[l] # "open"
                 => ENABLED AcceptError(l)
           /\ acceptPC[l] = "accept" /\ ~acquired[l] => listenerState[l] = "closed"
           /\ acceptPC[l] = "stopped" => ~acquired[l] /\ listenerState[l] # "open"
    /\ sem = Cardinality(OpenConns)
                + Cardinality({ l \in Listeners : acceptPC[l] = "accept" /\ acquired[l] })
    /\ (OpenConns = {} /\ \A l \in Listeners : acceptPC[l] # "accept") => sem = 0

\* C11's case: the pool is full of open connections, a listener was closed
\* while its Accept waited for a slot, and that Accept has returned with an
\* error
C11_Witness ==
    \E l \in Listeners :
        /\ acceptPC[l] = "stopped" /\ listenerState[l] = "closed"
        /\ Cardinality(OpenConns) = LimiterCapacity
        /\ sem = LimiterCapacity

(***************************************************************************)
(* The application: the claims.                                            *)
(***************************************************************************)
\* C12: UpdateDomains holds the write lock alone and assigns a whole map; no
\* swap happens while a request holds the read lock for its lookup, and the
\* lookup returns the entry that its host has in the one map that was
\* current during the lookup.
C12_AtomicSwap ==
    /\ dm \in DomainMaps \cup {NilMap}
    /\ updatePC # "idle" => lockWriter /\ lockReaders = {}
    /\ \A r \in Requests :
           /\ reqPC[r] = "rlocked" =>
                  r \in lockReaders /\ updatePC = "idle" /\ dm = reqMapAtLock[r]
           /\ reqPC[r] = "aux" =>
                  reqDomain[r] = MapLookup(reqMapAtLock[r], ToLower(req[r].host))

\* C12's case: a request looked its host up, and the map was swapped for one
\* with another entry for the host before the request went on: the request
\* has the entry of the map before the swap
C12_Witness ==
    \E r \in Requests :
        /\ reqPC[r] = "aux" /\ updatePC = "idle"
        /\ reqDomain[r] = "plain"
        /\ MapLookup(dm, ToLower(req[r].host)) = "httpsOnly"

\* the request was answered by the status check
StatusReplies == { "200 success", "503 not yet ready" }

\* C13 (as claimed): a request whose URL path is the status path is answered
\* by the status check: 200 success if and only if the domain map is
\* initialised, 503 not yet ready otherwise.
C13_StatusPathAnswered ==
    \A r \in Requests :
        reqPC[r] = "done" /\ req[r].target.path = StatusPath =>
            /\ reply[r] \in StatusReplies
            /\ reply[r] = "200 success" <=> reqReady[r] = "ready"

\* C13's case: a request for the status path with a query is answered as
\* content
C13_Witness ==
    \E r \in Requests :
        /\ reqPC[r] = "done"
        /\ req[r].target = [path |-> StatusPath, query |-> << "probe" >>]
        /\ reply[r] = "404"

\* the steps of a request, as its handler saw them
IsStatus(r) == RequestURI(req[r].target) = StatusPath
IsCleartext(r) == ~req[r].https
AutoRedirects(r) == IsCleartext(r) /\ RedirectHTTP
NotReady(r) == reqReady[r] = "notReady"
UnknownHost(r) == reqDomain[r] = NoDomain
HTTPSOnlyRedirects(r) == IsCleartext(r) /\ reqDomain[r] = "httpsOnly"

LoginNeeded ==
    /\ authReq \in ContentRequests
    /\ authCookie.ok
    /\ authCookie.session.access_token = NoToken

\* the answer is the redirect to the pages domain's /auth with the request's
\* domain and the state that the session now holds, the session holds the
\* request's address and no proxy_auth_domain, and the request was not
\* passed on to content
LoginRedirected ==
    LET session == sessions[authReq.host]
    IN  /\ authOut.handled
        /\ authOut.status = "302"
        /\ session.state \in StateValues
        /\ authOut.location = getProxyAddress(authReq, session.state)
        /\ session.uri = getRequestAddress(authReq)
        /\ session.proxy_auth_domain = NoDomainURL
        /\ session.access_token = NoToken

\* C15 as claimed: a request for an access-controlled path whose session
\* holds no access_token is always answered 302 to the pages domain's /auth
\* with the domain and a state, the state and the address are in the
\* session, proxy_auth_domain is not, and no content is served.
C15_LoginRedirectAsClaimed == LoginNeeded => LoginRedirected

\* C15 (amended): such a request is answered with that redirect, or with 500
\* and an unchanged session when the session cannot be saved; content is
\* served in neither case.
C15_LoginRedirect ==
    LoginNeeded =>
        \/ LoginRedirected
        \/ /\ authOut.handled
           /\ authOut.status = "500"
           /\ authOut.location = NoAddress
           /\ sessions[authReq.host] = authCookie.session

\* C15's case: a session that held a proxy_auth_domain and no access_token
\* was redirected to log in
C15_Witness ==
    /\ LoginNeeded
    /\ authCookie.session.proxy_auth_domain # NoDomainURL
    /\ authOut.status = "302"

\* the last request was a callback /auth?code=.. that TryAuthenticate got
\* with a session that the store accepted and that names no
\* proxy_auth_domain, and the callback carries no error
TenantCallback ==
    /\ authReq.path = callbackPath
    /\ authReq.query.code # NoCode
    /\ authReq.query.domain = NoDomainURL
    /\ authReq.query.error = ""
    /\ authCookie.ok
    /\ authCookie.session.proxy_auth_domain = NoDomainURL

\* the state parameter is empty or differs from the state of the session
StateEmptyOrDiffers ==
    \/ authReq.query.state = NoState
    \/ authReq.query.state # authCookie.session.state

\* the request put an access_token into a session that had none
TokenWritten ==
    /\ authCookie.session.access_token = NoToken
    /\ sessions[authReq.host].access_token # NoToken

\* C16: on a tenant callback an access_token is written only after the state
\* matched the session's, the code was one signed for this domain and the
\* token exchange was made and answered 200; with an empty or differing
\* state the answer is 401, no exchange is made and the access_token stays.
C16_CallbackChecks ==
    TenantCallback =>
        /\ TokenWritten =>
                /\ authReq.query.state # NoState
                /\ authReq.query.state = authCookie.session.state
                /\ authReq.query.code.kind = "signed"
                /\ authReq.query.code.aud = getRequestDomain(authReq)
                /\ authOut.exchanged
                /\ authOut.status = "302"
        /\ StateEmptyOrDiffers =>
                /\ authOut.status = "401"
                /\ ~authOut.exchanged
                /\ sessions[authReq.host].access_token = authCookie.session.access_token

\* C16's case: a callback with a code and an empty state was not answered
C16_Witness ==
    /\ TenantCallback
    /\ authReq.query.state = NoState
    /\ authCookie.session.state # NoState
    /\ ~authOut.handled
    /\ authOut.status = NoStatus

\* the rest of C16 holds: a token is written only after the three checks, and
\* a callback whose state is present and differs is answered 401
C16_ChecksBesidesEmptyState ==
    TenantCallback =>
        /\ TokenWritten =>
                /\ authReq.query.state # NoState
                /\ authReq.query.state = authCookie.session.state
                /\ authReq.query.code.kind = "signed"
                /\ authReq.query.code.aud = getRequestDomain(authReq)
                /\ authOut.exchanged
                /\ authOut.status = "302"
        /\ StateEmptyOrDiffers =>
                /\ ~authOut.exchanged
                /\ sessions[authReq.host].access_token = authCookie.session.access_token
                /\ authReq.query.state # NoState => authOut.status = "401"

\* the last request was a callback that presented, with a session that the
\* store accepted and that names no proxy_auth_domain, a code that the pages
\* domain had signed for another domain than the one the request is for
ForeignCodePresented ==
    /\ authReq.path = callbackPath
    /\ authReq.query.code.kind = "signed"
    /\ authReq.query.code.aud # getRequestDomain(authReq)
    /\ authCookie.ok
    /\ authCookie.session.proxy_auth_domain = NoDomainURL

ErrorStatuses == { "401", "500", "503" }

\* C17: a code that was signed for domain A and is presented in a callback
\* on another domain B is rejected: the callback is answered with an error,
\* no token exchange is made and B's session receives no access_token.
C17_RelayedCodeRejected ==
    ForeignCodePresented =>
        /\ authOut.handled
        /\ authOut.status \in ErrorStatuses
        /\ ~authOut.exchanged
        /\ sessions[authReq.host].access_token = authCookie.session.access_token

\* C17's case: a code signed for another domain was presented without a
\* state and the callback was not answered
C17_Witness ==
    /\ ForeignCodePresented
    /\ authReq.query.state = NoState
    /\ ~authOut.handled

\* what holds of C17: no exchange is made and no token is stored for a code
\* signed for another domain, and a callback that carries a state is
\* answered with an error
C17_ForeignCodeNeverAccepted ==
    ForeignCodePresented =>
        /\ ~authOut.exchanged
        /\ sessions[authReq.host].access_token = authCookie.session.access_token
        /\ authReq.query.state # NoState =>
                authOut.handled /\ authOut.status \in ErrorStatuses

\* a code signed for another domain reached the verification of the code:
\* the state matched and the session held a uri
C17_ReachesVerification ==
    /\ ForeignCodePresented
    /\ authReq.query.state = authCookie.session.state
    /\ authCookie.session.uri # NoAddress
    /\ authOut.status = "500"

\* the last request was a callback that the host relayed to the domain
\* named by proxy_auth_domain in its session
CallbackRelayed ==
    /\ authReq.path = callbackPath
    /\ authCookie.ok
    /\ ~shouldProxyAuthToGitlab(authReq)
    /\ authCookie.session.proxy_auth_domain # NoDomainURL
    /\ authOut.status = "302"

\* C18: the redirect of a relayed callback goes to the domain stored as
\* proxy_auth_domain, carries no token parameter and, in place of the code
\* it received, a code signed for that domain; the session that is saved
\* with the redirect holds no proxy_auth_domain any more.
C18_RelayStripsTokenAndSignsCode ==
    CallbackRelayed =>
        LET proxyDomain == authCookie.session.proxy_auth_domain
            location == authOut.location
        IN  /\ location.https = proxyDomain.https
            /\ location.host = proxyDomain.host
            /\ location.path = authReq.path
            /\ location.query.token = ""
            /\ location.query.code.kind = "signed"
            /\ location.query.code.aud = proxyDomain
            /\ location.query.state = authReq.query.state
            /\ sessions[authReq.host].proxy_auth_domain = NoDomainURL

\* C18's case: a callback with a code of the identity provider and a token
\* parameter was relayed
C18_Witness ==
    /\ CallbackRelayed
    /\ authReq.query.code = RawCode
    /\ authReq.query.token # ""

\* the last request was /auth?domain=T&state=S with a domain that parses,
\* and a session that the store accepted
ProxyAuthRequested ==
    /\ authReq.path = callbackPath
    /\ shouldProxyAuthToGitlab(authReq)
    /\ authReq.query.domain.ok
    /\ authCookie.ok

\* the host is the pages domain, a subdomain of it, or known to the source
IsSubdomainOfPagesDomain(name) == HasSuffix(name, << "." >> \o pagesDomain)
ConfiguredDomain(name) ==
    \/ name = pagesDomain
    \/ IsSubdomainOfPagesDomain(name)
    \/ SourceHasDomain(name)

\* the request stored its domain as proxy_auth_domain and was redirected to
\* the identity provider
ProxiedToGitlab ==
    /\ authOut.status = "302"
    /\ authOut.location = AuthorizeURL(authReq.query.state)
    /\ sessions[authReq.host].proxy_auth_domain = authReq.query.domain

\* C19: /auth?domain=T&state=S stores proxy_auth_domain and redirects to the
\* identity provider only if T's host is the pages domain, a subdomain of it
\* or a domain of the source; for any other T the answer is 401 and the
\* session stays as it was.
C19_OnlyConfiguredDomainsProxied ==
    ProxyAuthRequested =>
        /\ ProxiedToGitlab => ConfiguredDomain(authReq.query.domain.host)
        /\ ~ConfiguredDomain(authReq.query.domain.host) =>
                /\ authOut.status = "401"
                /\ sessions[authReq.host] = authCookie.session

\* C19's case: a host that ends with the characters of the pages domain
\* without being a subdomain was stored and redirected to log in
C19_Witness ==
    /\ ProxyAuthRequested
    /\ authReq.query.domain.host = LookalikeHost
    /\ ~ConfiguredDomain(LookalikeHost)
    /\ ProxiedToGitlab

\* what holds of C19: a host that neither is the pages domain, nor ends with
\* its characters, nor is known to the source is answered 401 and nothing is
\* stored, and the hosts the claim allows are proxied unless Save fails
C19_UnlistedDomainRefused ==
    ProxyAuthRequested =>
        /\ authReq.query.domain.host = UnlistedHost =>
                authOut.status = "401" /\ sessions[authReq.host] = authCookie.session
        /\ ConfiguredDomain(authReq.query.domain.host) =>
                ProxiedToGitlab \/ authOut.status = "500"

\* the access check answered something else than 200 or the invalid-token
\* signal, or failed in transport
AccessRefused == authOut.api \in { "401", "403", "error" }

C20_HookRan ==
    /\ authReq \in ContentRequests
    /\ authOut.api = "403"
    /\ authOut.notFoundHook

\* the access check of the last request answered 401 with error
\* invalid_token
InvalidTokenSignalled ==
    /\ authReq \in ContentRequests
    /\ authOut.api = "invalid_token"

\* the session lost its access_token and the request was redirected to its
\* own address, not passed on to content
SessionDestroyed ==
    /\ authOut.handled
    /\ authOut.status = "302"
    /\ authOut.location = getRequestAddress(authReq)
    /\ sessions[authReq.host].access_token = NoToken
    /\ ~authOut.notFoundHook

\* the answer was 500 and the client's session is the one it sent
SaveFailed ==
    /\ authOut.handled
    /\ authOut.status = "500"
    /\ authOut.location = NoAddress
    /\ sessions[authReq.host] = authCookie.session

\* the request that follows a destroyed session, for the same host and with
\* a session that the store accepts, is sent to log in
NextRequestRestartsLogin ==
    /\ InvalidTokenSignalled
    /\ authOut.status = "302"
    /\ authReq' \in ContentRequests
    /\ authReq'.host = authReq.host
    /\ authCookie'.ok
    => /\ authCookie'.session.access_token = NoToken
       /\ LoginRedirected' \/ SaveFailed'

\* C21 as claimed: after the invalid-token signal the access_token is
\* removed, the answer is always 302 to the request's own address and no
\* content is served.
C21_InvalidTokenAsClaimed == InvalidTokenSignalled => SessionDestroyed

\* C21 (amended): after the invalid-token signal the access_token is removed
\* and the answer is 302 to the request's own address, or the answer is 500
\* and the session unchanged when the session cannot be saved; no content is
\* served, and the next request with the destroyed session restarts the
\* login with a state.
C21_InvalidToken ==
    /\ [](InvalidTokenSignalled => SessionDestroyed \/ SaveFailed)
    /\ [][NextRequestRestartsLogin]_vars

\* C21's case: the invalid-token signal destroyed a session
C21_Witness == InvalidTokenSignalled /\ SessionDestroyed

\* the last request carried a cookie that the store rejected
CookieRejected == authReq # NoAuthRequest /\ ~authCookie.ok

\* C22: a request whose session cookie the store rejects is answered with a
\* 302 to its own address and a fresh, empty session, or with 500 when that
\* session cannot be saved; the request is not passed on, no token exchange
\* and no access check is made, and the answer is the same whatever the
\* rejected cookie held.
C22_RejectedCookieUnused ==
    CookieRejected =>
        /\ authOut.handled
        /\ ~authOut.exchanged
        /\ authOut.api = "none"
        /\ ~authOut.notFoundHook
        /\ \/ /\ authOut.status = "302"
              /\ authOut.location = getRequestAddress(authReq)
              /\ sessions[authReq.host] = EmptySession
           \/ /\ authOut.status = "500"
              /\ authOut.location = NoAddress
              /\ sessions[authReq.host] = authCookie.session

\* C22's case: a rejected cookie that held an access_token was replaced by a
\* fresh session
C22_Witness ==
    /\ CookieRejected
    /\ authCookie.session.access_token # NoToken
    /\ authOut.status = "302"
    /\ sessions[authReq.host] = EmptySession

(***************************************************************************)
(* Claims about the login flow.                                            *)
(***************************************************************************)
\* the client has arrived: the last answer redirects it to the address it
\* first asked for, and the session of that host holds an access_token
FlowArrived ==
    /\ flow.phase = "done"
    /\ authOut.status = "302"
    /\ authOut.location = flow.uri
    /\ sessions[flow.uri.host].access_token # NoToken

\* the identity provider refused the code or the token
ProviderRefused == flow.fault \in { "denied", "exchange" }

\* C23 as claimed: a client that asks for an access-controlled address
\* without a cookie and follows every redirect arrives, with an access_token
\* in the session and a last redirect to that address, unless the identity
\* provider refuses.
C23_FlowArrivesAsClaimed == flow.phase = "running" ~> (FlowArrived \/ ProviderRefused)

\* C23 (amended): such a client arrives after at most five redirects, with an
\* access_token in the session and a last redirect to the address, or the
\* flow ends before in an error answer because the identity provider
\* refused, a session could not be saved, the code could not be signed or
\* the signed code had expired.
C23_FlowArrives ==
    /\ flow.phase = "running" ~> (FlowArrived \/ flow.phase = "stopped")
    /\ [](flow.phase = "done" => FlowArrived)
    /\ [](flow.phase = "stopped" =>
              flow.fault # "none" /\ authOut.status \in ErrorStatuses)
    /\ [](flow.redirects <= 5)

\* C23's case: the client arrived at a tenant's address after five redirects
C23_Witness ==
    /\ FlowArrived
    /\ flow.uri.host = HostA
    /\ flow.redirects = 5
    /\ flow.fault = "none"

\* C24: every session cookie that a handler wrote has Path=/, HttpOnly,
\* MaxAge=600, and Secure exactly when the request that carried it was HTTPS.
C24_CookieAttributes ==
    authOut.saved =>
        /\ authOut.cookie.Path = "/"
        /\ authOut.cookie.HttpOnly
        /\ authOut.cookie.MaxAge = 600
        /\ authOut.cookie.Secure <=> authReq.https

\* C24's case: a cookie was written in answer to a request over HTTP, without
\* Secure
C24_Witness ==
    /\ authOut.saved
    /\ ~authReq.https
    /\ ~authOut.cookie.Secure
    /\ authOut.cookie.HttpOnly

\* and one in answer to a request over HTTPS, with Secure
C24_SecureWritten == authOut.saved /\ authReq.https /\ authOut.cookie.Secure

(***************************************************************************)
(* The GitLab source's Poll: the claims.                                   *)
(***************************************************************************)
\* C25: Poll(retries, interval) always terminates; it returns nil as soon as
\* one status check succeeds, also when that is the check after `retries`
\* failed ones; it makes at most retries+1 status checks; and when every
\* attempt failed it returns an error that contains 'polling failed after'
\* and the message of the last status error.
\* a check that succeeded: one more check and no more failures
PollCheckSucceeded ==
    /\ poll.phase = "running"
    /\ poll'.checks = poll.checks + 1
    /\ poll'.failed = poll.failed

ReturnsNilAtOnce ==
    PollCheckSucceeded => poll'.phase = "returned" /\ poll'.result = NilError

C25_Poll ==
    /\ poll.phase = "running" ~> poll.phase = "returned"
    /\ [](poll.checks <= poll.retries + 1)
    /\ [](poll.phase = "returned" /\ poll.result = NilError
             => poll.checks = poll.failed + 1)
    /\ [](poll.phase = "returned" /\ poll.result # NilError
             => /\ poll.checks = poll.retries + 1
                /\ poll.failed = poll.checks
                /\ ErrorContains(poll.result, "polling failed after")
                /\ ErrorContains(poll.result, poll.lastErr)
                /\ poll.lastErr \in StatusErrors)
    /\ [](poll.phase = "returned" => (poll.result = NilError <=> poll.failed <= poll.retries))
    /\ [][ReturnsNilAtOnce]_vars

\* C25's case: Poll returned nil from the check that followed `retries`
\* failed ones
C25_Witness ==
    /\ poll.phase = "returned"
    /\ poll.result = NilError
    /\ poll.retries > 0
    /\ poll.failed = poll.retries
    /\ poll.checks = poll.retries + 1

\* and the case where every attempt failed
C25_Exhausted ==
    /\ poll.phase = "returned"
    /\ poll.retries > 0
    /\ ErrorContains(poll.result, ConnectionErrorMsg)

(***************************************************************************)
(* Redirects: the claims.                                                  *)
(***************************************************************************)
\* the two paths are equal up to one trailing slash on either side
EqualUpToSlash(a, b) == a = b \/ a = b \o << "/" >> \/ a \o << "/" >> = b

\* the rules that qualify for the rewritten path, as indexes
Qualifying ==
    {i \in 1 .. Len(redirectRules.rules) :
        /\ EqualUpToSlash(redirectRules.rules[i].from, rewritten.path)
        /\ redirectRules.rules[i].to # BareDomain}

FirstQualifying == CHOOSE i \in Qualifying : \A j \in Qualifying : i <= j

\* C26: Rewrite returns the destination and status of the first rule, in
\* file order, whose source equals the request path up to one trailing slash
\* and whose destination is valid; rules with an invalid destination are
\* skipped; when no rule qualifies it returns no URL, status 0 and
\* ErrNoRedirect.
C26_RewriteFirstValidMatch ==
    rewritten # NoRewrite =>
        IF Qualifying = {}
        THEN /\ rewritten.url = NoRewriteURL
             /\ rewritten.status = 0
             /\ rewritten.err = ErrNoRedirect
        ELSE /\ rewritten.url = redirectRules.rules[FirstQualifying].to
             /\ rewritten.status = redirectRules.rules[FirstQualifying].status
             /\ rewritten.err = "nil"

\* C26's case: the first rule has the source but a bare domain as its
\* destination, and the second, whose source differs by the trailing slash,
\* was returned
C26_Witness ==
    /\ Len(redirectRules.rules) = 2
    /\ redirectRules.rules[1].from = rewritten.path
    /\ redirectRules.rules[1].to = BareDomain
    /\ redirectRules.rules[2].from # rewritten.path
    /\ rewritten.url = redirectRules.rules[2].to
    /\ rewritten.status = 302

\* and the case where the only rule with the source has an invalid destination
C26_NoRedirect ==
    /\ rewritten.err = ErrNoRedirect
    /\ \E i \in 1 .. Len(redirectRules.rules) :
           redirectRules.rules[i].from = rewritten.path

(***************************************************************************)
(* The per-domain rate limiter: the claims.                                *)
(***************************************************************************)
\* the requests allowed from instant s to instant t
RECURSIVE AllowedBetween(_, _)
AllowedBetween(s, t) ==
    IF s > t THEN 0 ELSE rlAllowedAt[s] + AllowedBetween(s + 1, t)

\* what a bucket that was full at s lets through until t
Allowance(s, t) == BurstSize + ((t - s) \div TicksPerPeriod)

DeniedNow == rlDecision.at = rlNow /\ ~rlDecision.allowed

FirstRequestAt(t) ==
    /\ rlAllowedAt[t] > 0
    /\ \A s \in 0 .. (t - 1) : rlAllowedAt[s] = 0

C27_IdleThenBurst ==
    /\ DeniedNow
    /\ rlAllowedAt[rlNow] = BurstSize
    /\ rlAllowedAt[0] > 0
    /\ rlNow > BurstSize * TicksPerPeriod
    /\ \A t \in 1 .. (rlNow - 1) : rlAllowedAt[t] = 0

(***************************************************************************)
(* The application: the domain map's lock.                                 *)
(***************************************************************************)
\* the step in which request r reads a.dm in isReady
IsReadyRead(r) ==
    /\ reqPC[r] = "aux"
    /\ reqPC'[r] = "done"
    /\ reqReady'[r] # "unread"

\* the step in which request r reads a.dm in domain
LookupRead(r) == reqPC[r] = "rlocked" /\ reqPC'[r] = "aux"

\* UpdateDomains holds the write lock and has not yet left
UpdateInProgress == updatePC \in {"locked", "assigned"}

MapReadUnderReadLock ==
    \A r \in Requests :
        IsReadyRead(r) \/ LookupRead(r) => r \in lockReaders /\ ~UpdateInProgress

\* C28: every read of the domain map made while handling a request, the
\* host lookup and the readiness check alike, happens under the read lock,
\* so that no read of the map reference runs while UpdateDomains is writing.
C28_MapReadsUnderReadLock == [][MapReadUnderReadLock]_vars

\* C28's case: UpdateDomains holds the write lock and is about to assign
\* a.dm, and a request that has released its read lock is about to read
\* a.dm in isReady
C28_Witness ==
    /\ updatePC = "locked"
    /\ lockWriter
    /\ \E r \in Requests :
           /\ reqPC[r] = "aux"
           /\ r \notin lockReaders
           /\ CallsIsReady(req[r], FALSE, RedirectHTTP)

\* the lookup itself is made under the read lock, once for a request
C28_LookupUnderReadLock ==
    \A r \in Requests :
        /\ reqPC[r] = "rlocked" => r \in lockReaders /\ ~lockWriter
        /\ r \in lockReaders => reqPC[r] = "rlocked"

(***************************************************************************)
(* Zip VFS: the claims about Open and Lstat.                               *)
(***************************************************************************)
\* the directories above a recorded path: its prefixes that end in a slash
AncestorDirectories(e) ==
    { SubSeq(e, 1, i) : i \in { j \in 1 .. (Len(e) - 1) : e[j] = "/" } }

\* those inside the public prefix
PublicAncestors(e) ==
    { d \in AncestorDirectories(e) : HasPrefix(d, publicDirectoryName \o Slash) }

\* the name is, by the archive's records, a regular file, a directory (a
\* record of its own or a directory above a recorded path), or another entry
RecordOf(name) == Clean(publicDirectoryName \o Slash \o name)
NamesFile(name) == RecordOf(name) \in zipEntries
NamesDirectory(name) ==
    \/ RecordOf(name) \o Slash \in zipEntries
    \/ \E e \in zipEntries : ~IsDirName(e) /\ RecordOf(name) \o Slash \in PublicAncestors(e)

\* C29: Open(name) returns a reader only for a regular file stored with
\* STORE (a plain section reader) or DEFLATE (an inflating reader); it fails
\* with 'not a file' for a directory, a symlink or any other non-regular
\* entry, with not-exist for an unknown name, and with an
\* unsupported-compression error for every other compression method.
C29_OpenByKind ==
    archiveCall.op = "Open" =>
        LET name == archiveCall.name
            e == RecordOf(name)
        IN  /\ archiveCall.reader # NoReader =>
                   /\ NamesFile(name) /\ IsRegular(ModeOf(e))
                   /\ archiveCall.reader =
                          (IF MethodOf(e) = "Store" THEN "sectionReader" ELSE "deflateReader")
                   /\ MethodOf(e) \in {"Store", "Deflate"}
            /\ NamesDirectory(name) => archiveCall.err = errNotFile
            /\ NamesFile(name) /\ ~IsRegular(ModeOf(e)) => archiveCall.err = errNotFile
            /\ ~NamesFile(name) /\ ~NamesDirectory(name) => archiveCall.err = ErrNotExist
            /\ NamesFile(name) /\ IsRegular(ModeOf(e))
                   /\ MethodOf(e) \notin {"Store", "Deflate"}
                   => archiveCall.err = ErrUnsupported

\* C29's case: Open of a directory that holds a recorded file and has no
\* record of its own answers not-exist
C29_Witness ==
    /\ archiveCall.op = "Open"
    /\ archiveCall.name = << "d" >>
    /\ DeepFile \in aFiles
    /\ DirRecord \notin zipEntries
    /\ archiveCall.err = ErrNotExist

\* what Open does by the archive's index: the claim's answers for the
\* entries and directories that readArchive indexed, whenever the data
\* offset of the entry could be read
C29_OpenByIndex ==
    archiveCall.op = "Open" /\ archiveCall.err # ErrDataOffset =>
        LET name == archiveCall.name
            e == RecordOf(name)
        IN  /\ archiveCall.reader # NoReader =>
                   /\ e \in aFiles /\ IsRegular(ModeOf(e))
                   /\ archiveCall.reader =
                          (IF MethodOf(e) = "Store" THEN "sectionReader" ELSE "deflateReader")
                   /\ MethodOf(e) \in {"Store", "Deflate"}
            /\ e \o Slash \in aDirectories /\ e \notin aFiles
                   => archiveCall.err = errNotFile
            /\ e \in aFiles /\ ~IsRegular(ModeOf(e)) => archiveCall.err = errNotFile
            /\ e \notin aFiles /\ e \o Slash \notin aDirectories
                   => archiveCall.err = ErrNotExist
            /\ e \in aFiles /\ IsRegular(ModeOf(e))
                   /\ MethodOf(e) \notin {"Store", "Deflate"}
                   => archiveCall.err = ErrUnsupported

\* C30: after an archive is opened, every ancestor directory inside the
\* public prefix of every recorded file path has a directory entry, so that
\* Lstat succeeds on each intermediate directory even when the archive has
\* no directory records.
C30_AncestorsHaveEntries ==
    aOpened =>
        /\ \A f \in aFiles : PublicAncestors(f) \subseteq aDirectories
        /\ archiveCall.op = "Lstat"
               /\ (\E f \in aFiles :
                       RecordOf(archiveCall.name) \o Slash \in PublicAncestors(f))
               => archiveCall.err = "nil"

\* C30's case: the archive records public/d/e/g.html and no directory, and
\* Lstat of d answers not-exist
C30_Witness ==
    /\ archiveCall.op = "Lstat"
    /\ archiveCall.name = << "d" >>
    /\ DeepFile \in aFiles
    /\ DirRecord \notin zipEntries
    /\ << "public", "/", "d", "/" >> \notin aDirectories
    /\ archiveCall.err = ErrNotExist

\* the directory that holds a recorded file does have an entry
C30_ParentHasEntry ==
    aOpened =>
        /\ \A f \in aFiles : SplitDir(f) \in aDirectories
        /\ archiveCall.op = "Lstat"
               /\ (\E f \in aFiles : RecordOf(archiveCall.name) \o Slash = SplitDir(f))
               => archiveCall.err = "nil"

(***************************************************************************)
(* Zip VFS: the data offset cache, the claims.                             *)
(***************************************************************************)
RECURSIVE ReadsOfName(_, _)
ReadsOfName(name, n) ==
    IF n = 0 THEN 0 ELSE headerReads[<< n, name >>] + ReadsOfName(name, n - 1)

\* C31: a file's data offset is resolved at most once and is constant
\* afterwards; the cached value lives outside the archive and is reused,
\* without another read of the local file header, by the archive created
\* for the same key after the earlier one was evicted.
C31_OffsetResolvedOnce ==
    \A name \in OffsetNames :
        /\ ReadsOfName(name, MaxInstances) <= 1
        /\ offsetCall.name = name /\ offsetCall.fetched
               => \A n \in Namespaces \ {offsetCall.namespace} :
                      << n, name >> \notin dataOffsetCache

\* C31's case: the second archive of the key read the local file header of
\* a file whose offset the first archive had already put in the cache
C31_Witness ==
    /\ namespaceCount = 2
    /\ offsetCall.fetched
    /\ offsetCall.namespace = 2
    /\ << 1, offsetCall.name >> \in dataOffsetCache
    /\ headerReads[<< 1, offsetCall.name >>] = 1
    /\ headerReads[<< 2, offsetCall.name >>] = 1

\* one archive resolves the offset of a file at most once, and the cache
\* keeps what evicted archives put into it
C31_OncePerArchive ==
    /\ \A k \in Namespaces \X OffsetNames : headerReads[k] <= 1
    /\ \A k \in Namespaces \X OffsetNames : headerReads[k] = 1 <=> k \in dataOffsetCache

(***************************************************************************)
(* The domain's certificate: the claims.                                   *)
(***************************************************************************)
\* the callers between the test of d.certificate and their return
InMemoCell == { c \in Handshakes : certPC[c] \in {"parse", "store", "return"} }

\* C32: for a domain with a valid certificate and key, any number of
\* concurrent certificate requests parse the key pair once and every caller
\* receives the same cached certificate; the memoization cell is guarded by
\* a per-domain mutex, so that one caller at a time is inside it; a failed
\* parse caches nothing.
C32_CertificateParsedOnce ==
    /\ parses <= 1
    /\ \A c, d \in Handshakes :
           certPC[c] = "done" /\ certPC[d] = "done" /\ keyPair = "valid"
               => certRet[c].cert = certRet[d].cert /\ certRet[c].err = "nil"
    /\ Cardinality(InMemoCell) <= 1
    /\ keyPair = "invalid" => certificate = NilCertificate

\* C32's case: two handshakes for the domain each parsed the key pair and
\* were given different certificates
C32_Witness ==
    /\ keyPair = "valid"
    /\ parses = 2
    /\ \E c, d \in Handshakes :
           /\ certPC[c] = "done" /\ certPC[d] = "done"
           /\ certRet[c].cert # NilCertificate
           /\ certRet[d].cert # NilCertificate
           /\ certRet[c].cert # certRet[d].cert

\* a failed parse caches nothing and every caller of it gets the error
C32_FailedParseCachesNothing ==
    keyPair = "invalid" =>
        /\ certificate = NilCertificate
        /\ parses = 0
        /\ \A c \in Handshakes : certPC[c] = "done" => certRet[c].err = "x509 error"

(***************************************************************************)
(* Zip VFS: the open status of an archive.                                 *)
(***************************************************************************)
\* the moves of the open status that the claim allows
StatusMoves ==
    { << "archiveOpening", "archiveOpened" >>,
      << "archiveOpening", "archiveOpenError" >>,
      << "archiveOpened", "archiveCorrupted" >> }

StatusMovesAsAllowed ==
    \A a \in ArchiveIds :
        \/ OpenStatus(a)' = OpenStatus(a)
        \/ << OpenStatus(a), OpenStatus(a)' >> \in StatusMoves

\* the outcome an archive recorded: a.err, else the error of its resource
RecordedOutcome(a) ==
    IF archives[a].err THEN "openError"
    ELSE IF archives[a].resErr THEN "corrupted"
    ELSE "nil"

\* caller c enters openArchive on an archive whose open has finished
LaterOpenArchive(c) ==
    /\ pc[c] = "opening"
    /\ archives[callArch[c]].parse = "done"
    /\ pc'[c] # pc[c]

LaterOpenReturnsOutcome ==
    \A c \in Callers :
        LaterOpenArchive(c) =>
            /\ pc'[c] = "returned"
            /\ ret'[c] = RecordedOutcome(callArch[c])
            /\ archives' = archives

\* C33: an archive's open status only moves OPENING to OPEN or OPENING to
\* OPEN_ERROR, and OPEN to CORRUPTED on a resource error; it never returns
\* to OPENING and OPEN_ERROR never becomes OPEN; once the open has finished
\* every later openArchive on the archive returns the recorded outcome
\* without starting another parse.
C33_OpenStatusMoves ==
    /\ [][StatusMovesAsAllowed]_vars
    /\ [][LaterOpenReturnsOutcome]_vars
    /\ [](\A a \in ArchiveIds : archives[a].reads <= 1)

\* C33's case: an archive that was open became corrupted, and a caller that
\* came to it afterwards was given the resource's error, with the one parse
\* the archive ever had
C33_Witness ==
    \E c \in Callers :
        /\ pc[c] = "returned"
        /\ ret[c] = "corrupted"
        /\ OpenStatus(callArch[c]) = "archiveCorrupted"
        /\ archives[callArch[c]].reads = 1

\* and two callers of an archive whose open failed were both given its error
C33_OpenErrorReturned ==
    \E c \in Callers :
        /\ pc[c] = "returned"
        /\ ret[c] = "openError"
        /\ OpenStatus(callArch[c]) = "archiveOpenError"
        /\ \E d \in Callers \ {c} :
               callArch[d] = callArch[c] /\ pc[d] = "returned" /\ ret[d] = "openError"

C34_WithoutProjectPasses ==
    /\ gate.auth = "nil"
    /\ gate.entry = "CheckAuthenticationWithoutProject"
    /\ ~authOut.handled

C34_ConfiguredAuthPasses ==
    /\ gate.auth = "configured"
    /\ gate.entry = "CheckAuthentication"
    /\ ~authOut.handled
\* ---------------------------------------------------------------------
\* C35  Every file recorded by readArchive is found again: Lstat and Open
\* called with the file's path relative to the public prefix resolve to
\* that entry, for every public prefix, the empty one included.
\* ---------------------------------------------------------------------
\* the recorded file whose relative path was asked for
AskedFile ==
    { f \in aFiles : /\ UnderPrefix(f, publicDirectoryName)
                     /\ RelativeTo(f, publicDirectoryName) = archiveCall.name }

C35_RecordedFilesFound ==
    archiveCall.op # "none" =>
        \A f \in AskedFile :
            /\ findFile(archiveCall.name) = f
            /\ archiveCall.op = "Lstat" => archiveCall.info = f /\ archiveCall.err = "nil"
            /\ archiveCall.op = "Open" => archiveCall.err \notin {ErrNotExist, errNotFile}

\* under the empty prefix a recorded file is asked for and reported missing
C35_Witness ==
    /\ publicDirectoryName = << >>
    /\ archiveCall.op = "Lstat"
    /\ AskedFile # {}
    /\ archiveCall.err = ErrNotExist

\* under a prefix that is not empty every recorded file is found again
C35_FoundUnderNamedPrefix ==
    (archiveCall.op # "none" /\ publicDirectoryName # << >>) =>
        \A f \in AskedFile :
            /\ findFile(archiveCall.name) = f
            /\ archiveCall.op = "Lstat" => archiveCall.info = f /\ archiveCall.err = "nil"
            /\ archiveCall.op = "Open" => archiveCall.err \notin {ErrNotExist, errNotFile}

C35_NamedPrefixFound ==
    /\ publicDirectoryName = << "docs" >>
    /\ archiveCall.op = "Open"
    /\ archiveCall.name = << "c", "/", "d.html" >>
    /\ archiveCall.err = "nil"
\* ---------------------------------------------------------------------
\* C36  Resolve always ends with a value or an error: the client's error
\* when the lookup fails, "could not match lookup path" when no lookup path
\* matches, and an error too when the client returns neither a domain nor
\* an error; it never crashes.
\* ---------------------------------------------------------------------
C36_ResolveEndsWithValueOrError ==
    /\ resolved.status \in {"none", "ok", "noMatch", "clientError"}
    /\ response.kind = "error" => resolved.status = "clientError"
    /\ response.kind = "nil" => resolved.status \notin {"none", "ok"}
    /\ response.kind = "domain" => resolved.status \in {"ok", "noMatch"}

\* the client returned no domain and no error, and Resolve dereferenced nil
C36_Witness ==
    /\ response.kind = "nil"
    /\ requestURLPath # << >>
    /\ resolved.status = "panic"

\* with an error or a domain from the client, Resolve ends with a value or
\* an error
C36_OtherCasesEnd ==
    /\ response.kind = "error" => resolved.status = "clientError"
    /\ response.kind = "domain" =>
          /\ resolved.status \in {"ok", "noMatch"}
          /\ resolved.status = "noMatch" <=>
                \A i \in DOMAIN response.LookupPaths :
                    ~Matches(requestURLPath, response.LookupPaths[i])
\* ---------------------------------------------------------------------
\* C37  A slot release never blocks: every release that is due, by a
\* connection's Close or by an Accept whose underlying Accept failed, finds
\* a slot to receive; the slots held are those of the open accepted
\* connections and of the Accept calls that acquired one and have not
\* returned; a connection is handed out only by an Accept that acquired a
\* slot.
\* ---------------------------------------------------------------------
\* the Accept calls that hold a slot and have not returned
HoldingAccepts == { l \in Listeners : acceptPC[l] = "accept" /\ acquired[l] }

\* the connections whose release has not run
HoldingConns == { k \in Conns : connState[k] # "unused" /\ ~releaseOnce[k] }

ReleaseNeverBlocks ==
    /\ \A k \in Conns :
           connState[k] # "unused" /\ closeCalls[k] < MaxCloseCalls
               => ENABLED CloseConn(k)
    /\ \A l \in Listeners :
           acceptPC[l] = "accept" /\ listenerState[l] # "open"
               => ENABLED AcceptError(l)
    /\ HoldingConns = OpenConns
    /\ sem = Cardinality(HoldingConns) + Cardinality(HoldingAccepts)
    /\ sem >= Cardinality(HoldingAccepts)

\* a step that hands a connection out is the step of an Accept holding a slot
HandedOutWithSlot ==
    \A k \in Conns :
        connState[k] = "unused" /\ connState'[k] = "open"
            => \E l \in Listeners :
                   /\ acceptPC[l] = "accept" /\ acquired[l]
                   /\ acceptPC'[l] = "acquire"
                   /\ sem' = sem

C37_ReleaseNeverBlocks ==
    /\ []ReleaseNeverBlocks
    /\ [][HandedOutWithSlot]_vars

\* a release by a failed Accept is due while the pool is full, after a
\* connection gave its slot back and another still holds one
C37_Witness ==
    /\ sem = LimiterCapacity
    /\ \E l \in Listeners :
           acceptPC[l] = "accept" /\ acquired[l] /\ listenerState[l] = "closed"
    /\ \E k \in Conns : releases[k] = 1
    /\ OpenConns # {}
\* ---------------------------------------------------------------------
\* C38  The gauge of cached entries returns to the sum of the file counts
\* of the archives in the cache: what readArchive adds for an archive is
\* what onEvicted subtracts for it, in every interleaving, also when the
\* archive is evicted while its open is in progress.
\* ---------------------------------------------------------------------
RECURSIVE FilesOf(_)
FilesOf(S) ==
    IF S = {} THEN 0
    ELSE LET a == CHOOSE x \in S : TRUE
         IN  entryCache.archives[a].files + FilesOf(S \ {a})

\* the archives the cache holds
ArchivesInCache == IF entryCache.cached = NoInstance THEN {} ELSE {entryCache.cached}

\* no readArchive is running and no deletion is pending
CacheAtRest ==
    /\ entryCache.deletables = {}
    /\ \A a \in Instances : entryCache.archives[a].stage \in {"none", "done", "failed"}

C38_EntriesGaugeReturns ==
    CacheAtRest => entryCache.gauge = FilesOf(ArchivesInCache)

\* an archive was evicted before readArchive had indexed its files,
\* readArchive then added its file count, and the cache is at rest
C38_Witness ==
    /\ CacheAtRest
    /\ \E a \in entryCache.evicted :
           /\ entryCache.archives[a].dropped = 0
           /\ entryCache.archives[a].files = FileCount(a)
    /\ entryCache.gauge > FilesOf(ArchivesInCache)

\* an archive evicted after its open has ended takes out what it put in
EvictedAfterOpen ==
    \A a \in Instances :
        (a \in entryCache'.evicted /\ a \notin entryCache.evicted
            /\ entryCache.archives[a].stage \in {"done", "failed"})
                => /\ entryCache'.archives[a].dropped = entryCache.archives[a].files
                   /\ entryCache'.gauge = entryCache.gauge - entryCache.archives[a].files

C38_EvictedAfterOpenBalances == [][EvictedAfterOpen]_vars

C38_EvictedAfterOpen ==
    \E a \in entryCache.evicted :
        entryCache.archives[a].dropped = FileCount(a) /\ entryCache.archives[a].files = FileCount(a)

\* ---------------------------------------------------------------------
\* C39  A request that looked its host up before the first UpdateDomains
\* is answered 503 (map not initialised) or with the response for its
\* domain in the published map; it is never answered 404 when the published
\* map holds its host.
\* ---------------------------------------------------------------------
\* the step in which request r is answered, after a lookup made in the nil map
AnswersAfterNilLookup(r) ==
    /\ reqPC[r] = "aux" /\ reqPC'[r] = "done"
    /\ reqMapAtLock[r].isNil

\* the domain the map now published holds for the request's host
PublishedDomain(r) == MapLookup(dm, ToLower(req[r].host))

RacingRequestAnswer ==
    \A r \in Requests :
        AnswersAfterNilLookup(r) =>
            /\ reply'[r] \in
                  { TryAuxiliaryHandlers(req[r], NoDomain, FALSE,
                                         reqArtifact'[r], RedirectHTTP),
                    TryAuxiliaryHandlers(req[r], PublishedDomain(r), TRUE,
                                         reqArtifact'[r], RedirectHTTP) }
            /\ PublishedDomain(r) # NoDomain => reply'[r] # "404"

C39_RacingRequestNever404 == [][RacingRequestAnswer]_vars

\* a request was answered 404 after the readiness check found the map set,
\* while the UpdateDomains that published its host still holds the write lock
C39_Witness ==
    \E r \in Requests :
        /\ reqPC[r] = "done"
        /\ reply[r] = "404"
        /\ reqReady[r] = "ready"
        /\ reqDomain[r] = NoDomain
        /\ PublishedDomain(r) # NoDomain
        /\ updatePC = "assigned"

\* a racing request that finds the map not set is answered 503 or earlier
C39_NotReadyNever404 ==
    \A r \in Requests :
        reqPC[r] = "done" /\ reqReady[r] = "notReady" => reply[r] # "404"
\* ---------------------------------------------------------------------
\* C40  The answers DomainAllowed gives for a host depend only on that
\* host's requests and the clock: two runs that agree on the requests for
\* RlHostA give the same answers for it whatever is asked for other hosts,
\* as long as its bucket is not evicted; after an eviction the host starts
\* again with a full bucket.
\* ---------------------------------------------------------------------
SameAnswersForA ==
    ~pair.evictedA =>
        /\ pair.answer[1] = pair.answer[2]
        /\ pair.cache[1][domainKey(RlHostA)] = pair.cache[2][domainKey(RlHostA)]

\* a request for RlHostA that finds no bucket is allowed and leaves a full
\* bucket less its own token
FullBucketAfterEviction ==
    \A i \in Runs :
        (pair.cache[i][domainKey(RlHostA)] = NoLimiter /\ pair'.answer[i] # pair.answer[i])
            => /\ pair'.answer[i].allowed
               /\ pair'.cache[i][domainKey(RlHostA)] =
                      [last |-> pair.now, tokens |-> BurstUnits - TokenUnits]

C40_AnswersDependOnOwnHost ==
    /\ []SameAnswersForA
    /\ [][FullBucketAfterEviction]_vars

\* the runs differ in the other host's bucket, RlHostA's bucket is used up
\* in both, and both refused its last request
C40_Witness ==
    /\ ~pair.evictedA
    /\ pair.cache[1][domainKey(RlHostB)] # pair.cache[2][domainKey(RlHostB)]
    /\ pair.answer[1].at = pair.now
    /\ ~pair.answer[1].allowed /\ ~pair.answer[2].allowed

\* after an eviction in one run only, that run allows what the other refuses
C40_EvictionRefills ==
    /\ pair.evictedA
    /\ pair.answer[1].at = pair.now /\ pair.answer[2].at = pair.now
    /\ pair.answer[1].allowed /\ ~pair.answer[2].allowed
====
